---- MODULE Spec2Model ----
(***************************************************************************)
(* Device-authorization flow of superbox.ai (server/handlers/auth.go).     *)
(*                                                                         *)
(* The session store is the three package-level maps guarded by            *)
(* sessionMutex.  Every handler is a goroutine that runs as a sequence of  *)
(* steps: a step in which its call of sessionMutex.Lock or RLock returns,  *)
(* and steps that are one critical section (or one upstream reply)         *)
(* together with the Unlock and the local computation that follow it.      *)
(* Handlers of different requests interleave between steps, and the clock  *)
(* (time.Now().Unix()) may advance between any two steps, by no more than  *)
(* its timeout while an upstream call is in flight.                        *)
(***************************************************************************)
EXTENDS Integers, Sequences, FiniteSets, TLC

VARIABLES
    now,             \* time.Now().Unix()
    deviceSessions,  \* map deviceCode -> *DeviceSession (the object's fields)
    stateIndex,      \* map state -> deviceCode
    userIndex,       \* map normalized user code -> deviceCode
    detached,        \* DeviceSession objects deleted from deviceSessions that a
                     \* running deviceSubmit still holds a pointer to
    sessionMutex,    \* the sync.RWMutex: the handler that holds it for writing
                     \* (0: none) and the handlers that hold it for reading
    critical,        \* the handlers whose Lock or RLock call has returned and
                     \* whose critical section has not run yet
    issued,          \* number of device codes / states generated so far
    configured,      \* providers whose client id and secret are set (init())
    env,             \* the bounds of this run (see Environments)
    req,             \* the request each handler goroutine is serving
    delivered,       \* history: per device code, how many polls answered 200
    refused,         \* history: per device code, how many polls answered 400
                     \* for a session in status error
    profile,         \* the request a profile handler serves
    scene            \* history: how far the last calls follow the login scenario

vars == <<now, deviceSessions, stateIndex, userIndex, detached, sessionMutex,
          critical, issued, configured, env, req, delivered, refused, scene,
          profile>>

----------------------------------------------------------------------------
(* Program constants *)

deviceSessionTTL == 600
devicePollInterval == 5
cleanupGrace == 120

\* the Timeout of the http.Client of each upstream call, in seconds
upstreamTimeout == 30

(* Bounds of the model *)

MaxSessions == 2      \* sessions created over a run
MaxRequests == 2      \* handler goroutines that can be in flight together

Requests == 1..MaxRequests
Providers == {"google", "github"}

\* time.Now().Unix() when a run begins: a Unix time, which is not 0 (the value
\* of a timestamp field that was never written)
Epoch == 1000

\* The instants the clock is observed at, as Unix times.  For a session
\* created at Epoch they lie on each side of every comparison the code makes
\* on timestamps: completed at Epoch, the grace is over 121 seconds later and
\* not 120; it expires 600 seconds later and not 570; an upstream call that
\* begins 570 seconds later can be in flight until it has expired.
Instants ==
    {Epoch, Epoch + cleanupGrace, Epoch + cleanupGrace + 1,
     Epoch + deviceSessionTTL - upstreamTimeout, Epoch + deviceSessionTTL}

\* the instants of the runs with several sessions: a session that became
\* terminal at Epoch is due for sessionCleanup at the second, one that is
\* pending or authorizing is not
SweepInstants == {Epoch, Epoch + cleanupGrace + 1}

\* the instants of the runs with concurrent handlers
RaceInstants == {Epoch, Epoch + deviceSessionTTL}

\* the routes of the device flow: start, poll, the form, submit, the callbacks
Routes == {"start", "poll", "form", "submit", "callback"}

\* the routes that run sessionCleanup
SweepRoutes == {"start", "poll"}

\* the routes of the runs in which callbacks and sweeps race
GraceRoutes == {"start", "poll", "callback"}

\* A run is bounded in the sessions it creates, in the handlers that run at
\* once, in the instants its clock is observed at and in the routes that are
\* called, and it has one state of the page template (line 43, set once by
\* init, lines 53-57): parsed, missing (the file did not parse, authTemplate is
\* nil), or parsed and failing when executed.  The bounds are not all at their
\* largest in one run: a run has several sessions, or the finest clock, or
\* concurrent handlers (of the routes that authorize, or of the routes a
\* callback and a sweep race on, to a session's expiry; of start and the
\* callbacks to the end of a session's grace; or of the routes that are no
\* callback), or a template that is not usable.
Environments ==
    { [sessions |-> MaxSessions, goroutines |-> 1, instants |-> SweepInstants,
       routes |-> Routes, template |-> "parsed"],
      [sessions |-> 1, goroutines |-> 1, instants |-> Instants, routes |-> Routes,
       template |-> "parsed"],
      [sessions |-> 1, goroutines |-> MaxRequests, instants |-> RaceInstants,
       routes |-> Routes \ {"poll", "form"}, template |-> "parsed"],
      [sessions |-> 1, goroutines |-> MaxRequests, instants |-> RaceInstants,
       routes |-> GraceRoutes, template |-> "parsed"],
      [sessions |-> 1, goroutines |-> MaxRequests, instants |-> SweepInstants,
       routes |-> {"start", "callback"}, template |-> "parsed"],
      [sessions |-> 1, goroutines |-> MaxRequests, instants |-> RaceInstants,
       routes |-> Routes \ {"callback"}, template |-> "parsed"],
      [sessions |-> 1, goroutines |-> 1, instants |-> RaceInstants, routes |-> Routes,
       template |-> "missing"],
      [sessions |-> 1, goroutines |-> 1, instants |-> RaceInstants, routes |-> Routes,
       template |-> "failing"] }

----------------------------------------------------------------------------
(* Strings are sequences of one-character strings, so that the code's string
   conversions can be computed. *)

\* the letters of ASCII (the texts of the model are ASCII, but for the white
\* space NEL and NBSP)
Lowers == <<"a", "b", "c", "d", "e", "f", "g", "h", "i", "j", "k", "l", "m",
            "n", "o", "p", "q", "r", "s", "t", "u", "v", "w", "x", "y", "z">>
Uppers == <<"A", "B", "C", "D", "E", "F", "G", "H", "I", "J", "K", "L", "M",
            "N", "O", "P", "Q", "R", "S", "T", "U", "V", "W", "X", "Y", "Z">>

\* strings.ToUpper / strings.ToLower on one character
UpperChar(c) ==
    IF \E i \in 1..Len(Lowers) : Lowers[i] = c
    THEN Uppers[CHOOSE i \in 1..Len(Lowers) : Lowers[i] = c]
    ELSE c

LowerChar(c) ==
    IF \E i \in 1..Len(Uppers) : Uppers[i] = c
    THEN Lowers[CHOOSE i \in 1..Len(Uppers) : Uppers[i] = c]
    ELSE c

ToUpper(s) == [i \in 1..Len(s) |-> UpperChar(s[i])]
ToLower(s) == [i \in 1..Len(s) |-> LowerChar(s[i])]

\* strings.ReplaceAll(s, old, "") for a one-character old
ReplaceAll(s, old) == SelectSeq(s, LAMBDA c : c # old)

normalizeCode(code) == ToUpper(ReplaceAll(ReplaceAll(code, "-"), " "))

\* generateUserCode: eight random bytes, each mapped into the alphabet, formatted
\* XXXX-XXXX.  The bytes are the draw of crypto/rand; the model draws them from
\* RawCodes (which give AB12-CD34 and X0X0-EE99).
Alphabet == <<"A", "B", "C", "D", "E", "F", "G", "H", "I", "J", "K", "L", "M",
              "N", "O", "P", "Q", "R", "S", "T", "U", "V", "W", "X", "Y", "Z",
              "0", "1", "2", "3", "4", "5", "6", "7", "8", "9">>

RawCodes == << <<0, 1, 27, 28, 2, 3, 29, 30>>,
               <<59, 26, 23, 62, 4, 40, 35, 251>> >>

\* the draws open to the k-th generateUserCode of a run: a draw already made,
\* or the next one of RawCodes (which of the unused ones makes no difference)
RawDraws(k) == {RawCodes[j] : j \in 1..(IF k < Len(RawCodes) THEN k ELSE Len(RawCodes))}

generateUserCode(b) ==
    LET raw == [n \in 1..Len(b) |-> Alphabet[(b[n] % Len(Alphabet)) + 1]]
    IN SubSeq(raw, 1, 4) \o <<"-">> \o SubSeq(raw, 5, 8)

\* generateDeviceCode / the state of deviceStart: 40 and 32 random bytes.  The
\* k-th draw is the value k (device code) and -k (state): draws never repeat
\* and no device code equals a state.  The empty string is 0.
generateDeviceCode(k) == k

\* a state that is the device code again: the variant the confinement of the
\* device code is checked against
generateStateAsDeviceCode(k) == generateDeviceCode(k)

generateState(k) == 0 - k

GOOGLE == <<"g", "o", "o", "g", "l", "e">>
GITHUB == <<"g", "i", "t", "h", "u", "b">>

ProviderTitle(provider) == IF provider = "google" THEN "Google" ELSE "GitHub"

\* provider name as the Go string constant
ProviderName(p) == IF p = GOOGLE THEN "google" ELSE IF p = GITHUB THEN "github" ELSE "other"

----------------------------------------------------------------------------
(* Maps *)

EmptyMap == [k \in {} |-> 0]
MapPut(m, k, v) == [x \in DOMAIN m \cup {k} |-> IF x = k THEN v ELSE m[x]]
MapDel(m, k) == [x \in DOMAIN m \ {k} |-> m[x]]
\* m[k] of a Go map[...]string: the zero value when k is absent
MapGet(m, k) == IF k \in DOMAIN m THEN m[k] ELSE 0

----------------------------------------------------------------------------
(* Messages (session.Error, response details, page texts) are sequences of
   strings: a message of the code is the one-element sequence holding it, a
   message computed from a request parameter is its character sequence, and
   the empty string is the empty sequence. *)

Msg(text) == <<text>>
NoMsg == <<>>

HexDigits == <<"0", "1", "2", "3", "4", "5", "6", "7", "8", "9",
               "a", "b", "c", "d", "e", "f">>
IsHex(c) == \E i \in 1..Len(HexDigits) : HexDigits[i] = LowerChar(c)
HexValue(c) == (CHOOSE i \in 1..Len(HexDigits) : HexDigits[i] = LowerChar(c)) - 1

\* the printable ASCII characters, from 0x20 (space) to 0x7E (the quotes, the
\* backslash and the backquote by name)
Ascii == <<" ", "!", "dquote", "#", "$", "%", "&", "quote", "(", ")", "*", "+", ",", "-", ".", "/",
           "0", "1", "2", "3", "4", "5", "6", "7", "8", "9", ":", ";", "<", "=", ">", "?",
           "@", "A", "B", "C", "D", "E", "F", "G", "H", "I", "J", "K", "L", "M", "N", "O",
           "P", "Q", "R", "S", "T", "U", "V", "W", "X", "Y", "Z", "[", "backslash", "]", "^", "_",
           "backquote", "a", "b", "c", "d", "e", "f", "g", "h", "i", "j", "k", "l", "m", "n", "o",
           "p", "q", "r", "s", "t", "u", "v", "w", "x", "y", "z", "{", "|", "}", "~">>

\* the character of a byte value: the white space of ASCII ("VT" is the one
\* character U+000B); the other bytes outside printable ASCII are kept as one
\* opaque character
ByteChar(v) ==
    IF v >= 32 /\ v <= 126 THEN Ascii[v - 31]
    ELSE IF v = 9 THEN "\t"
    ELSE IF v = 10 THEN "\n"
    ELSE IF v = 11 THEN "VT"
    ELSE IF v = 12 THEN "\f"
    ELSE IF v = 13 THEN "\r"
    ELSE "byte"

RECURSIVE ValidEscapes(_)
ValidEscapes(s) ==
    IF s = <<>> THEN TRUE
    ELSE IF Head(s) = "%"
         THEN /\ Len(s) >= 3
              /\ IsHex(s[2])
              /\ IsHex(s[3])
              /\ ValidEscapes(SubSeq(s, 4, Len(s)))
         ELSE ValidEscapes(Tail(s))

RECURSIVE Unescape(_)
Unescape(s) ==
    IF s = <<>> THEN <<>>
    ELSE IF Head(s) = "%"
         THEN <<ByteChar(16 * HexValue(s[2]) + HexValue(s[3]))>> \o Unescape(SubSeq(s, 4, Len(s)))
    ELSE IF Head(s) = "+" THEN <<" ">> \o Unescape(Tail(s))
    ELSE <<Head(s)>> \o Unescape(Tail(s))

\* url.QueryUnescape with its error dropped (message, _ := ...): the empty
\* string on an invalid escape
QueryUnescape(s) == IF ValidEscapes(s) THEN Unescape(s) ELSE <<>>

----------------------------------------------------------------------------
(* models.DeviceSession *)

NoTokens == EmptyMap     \* the nil map

NilSession ==
    [deviceCode |-> 0, userCode |-> <<>>, normalizedUserCode |-> <<>>,
     provider |-> "", state |-> 0, status |-> "", createdAt |-> 0,
     expiresAt |-> 0, completedAt |-> 0, tokens |-> NoTokens, error |-> NoMsg,
     lastTouched |-> 0]

TerminalStatuses == {"complete", "error", "expired"}

\* a scan that collects terminal sessions only, their grace over: the variant
\* the eviction of abandoned sessions is checked against
CleanupEligibleTerminal(session, t) ==
    LET completedAt == IF session.completedAt = 0 THEN session.expiresAt
                       ELSE session.completedAt
    IN /\ session.status \in TerminalStatuses
       /\ t - completedAt > cleanupGrace

\* the condition of sessionCleanup's scan for one session at time t
CleanupEligible(session, t) ==
    LET completedAt == IF session.completedAt = 0 THEN session.expiresAt
                       ELSE session.completedAt
    IN \/ session.expiresAt <= t
       \/ /\ session.status \in TerminalStatuses
          /\ t - completedAt > cleanupGrace

----------------------------------------------------------------------------
(* The session store.  S is the record of the three maps and of the detached
   objects; each operator is the body of one critical section. *)

Store == [ds |-> deviceSessions, si |-> stateIndex, ui |-> userIndex, det |-> detached]

storeSession(S, session) ==
    [S EXCEPT !.ds = MapPut(S.ds, session.deviceCode, session),
              !.ui = MapPut(S.ui, session.normalizedUserCode, session.deviceCode),
              !.si = MapPut(S.si, session.state, session.deviceCode)]

\* a removeSession that leaves the user-code entry behind: the variant the
\* index properties are checked against
removeSessionKeepingUserCode(S, deviceCode, held) ==
    IF deviceCode \notin DOMAIN S.ds THEN S
    ELSE LET session == S.ds[deviceCode]
         IN [ds |-> MapDel(S.ds, deviceCode),
             ui |-> S.ui,
             si |-> MapDel(S.si, session.state),
             det |-> IF deviceCode \in held THEN MapPut(S.det, deviceCode, session)
                     ELSE S.det]

\* held: the device codes of the objects running deviceSubmit handlers point to
removeSession(S, deviceCode, held) ==
    IF deviceCode \notin DOMAIN S.ds THEN S
    ELSE LET session == S.ds[deviceCode]
         IN [ds |-> MapDel(S.ds, deviceCode),
             ui |-> MapDel(S.ui, session.normalizedUserCode),
             si |-> MapDel(S.si, session.state),
             det |-> IF deviceCode \in held THEN MapPut(S.det, deviceCode, session)
                     ELSE S.det]

getSessionCopy(S, deviceCode) ==
    IF deviceCode \in DOMAIN S.ds THEN S.ds[deviceCode] ELSE NilSession

markSession(S, deviceCode, status, message, t) ==
    IF deviceCode \notin DOMAIN S.ds THEN S
    ELSE LET session == S.ds[deviceCode]
         IN [S EXCEPT !.ds[deviceCode] =
                          [session EXCEPT !.status = status,
                                          !.completedAt = t,
                                          !.error = IF message # NoMsg THEN message
                                                    ELSE session.error],
                      !.si = MapDel(S.si, session.state)]

\* a setSessionTokens that attaches the tokens and leaves the status as it
\* is: the variant the login scenario is checked against
setSessionTokensKeepingStatus(S, deviceCode, tokens, t) ==
    IF deviceCode \notin DOMAIN S.ds THEN S
    ELSE LET session == S.ds[deviceCode]
         IN [S EXCEPT !.ds[deviceCode] =
                          [session EXCEPT !.tokens = tokens,
                                          !.completedAt = t],
                      !.si = MapDel(S.si, session.state)]

setSessionTokens(S, deviceCode, tokens, t) ==
    IF deviceCode \notin DOMAIN S.ds THEN S
    ELSE LET session == S.ds[deviceCode]
         IN [S EXCEPT !.ds[deviceCode] =
                          [session EXCEPT !.status = "complete",
                                          !.tokens = tokens,
                                          !.completedAt = t],
                      !.si = MapDel(S.si, session.state)]

findState(S, state) == MapGet(S.si, state)

\* a scan that collects only the pending sessions that have expired: the
\* variant the removal of terminal sessions is checked against
expiredCodesPendingOnly(S, t) ==
    {dc \in DOMAIN S.ds : S.ds[dc].status = "pending" /\ S.ds[dc].expiresAt <= t}

\* sessionCleanup's scan: the device codes it collects at time t
expiredCodes(S, t) == {dc \in DOMAIN S.ds : CleanupEligible(S.ds[dc], t)}

\* a checkProvider that accepts every provider: the variant the rejection of
\* unconfigured providers is checked against
checkProviderAlways(provider, conf) == TRUE

\* TRUE when checkProvider returns nil
checkProvider(provider, conf) == ~(provider \in Providers /\ provider \notin conf)

----------------------------------------------------------------------------
(* Upstream payloads: a JSON object is a map from keys to typed values. *)

JStr(v) == [type |-> "string", val |-> v]
JNum(v) == [type |-> "number", val |-> v]

IsString(data, key) == key \in DOMAIN data /\ data[key].type = "string"
IsNumber(data, key) == key \in DOMAIN data /\ data[key].type = "number"

RECURSIVE getString(_, _)
getString(data, keys) ==
    IF keys = <<>> THEN ""
    ELSE IF IsString(data, Head(keys)) THEN data[Head(keys)].val
    ELSE getString(data, Tail(keys))

\* models.AuthResponse; a *string is the empty or the one-element sequence
parseAuthResponse(data) ==
    [IDToken |-> getString(data, <<"idToken", "id_token">>),
     RefreshToken |-> getString(data, <<"refreshToken", "refresh_token">>),
     ExpiresIn |-> IF IsNumber(data, "expiresIn") THEN data["expiresIn"].val
                   ELSE IF IsNumber(data, "expires_in") THEN data["expires_in"].val
                   ELSE 0,
     Email |-> IF IsString(data, "email") THEN <<data["email"].val>> ELSE <<>>,
     LocalID |-> IF IsString(data, "localId") THEN <<data["localId"].val>>
                 ELSE IF IsString(data, "user_id") THEN <<data["user_id"].val>>
                 ELSE <<>>]

\* the authDict a callback builds from the identity provider's reply
authDict(authResp, provider) ==
    [k \in {"id_token", "refresh_token", "expires_in", "provider"}
           \cup (IF authResp.Email # <<>> THEN {"email"} ELSE {})
           \cup (IF authResp.LocalID # <<>> THEN {"local_id"} ELSE {}) |->
        CASE k = "id_token" -> authResp.IDToken
          [] k = "refresh_token" -> authResp.RefreshToken
          [] k = "expires_in" -> authResp.ExpiresIn
          [] k = "provider" -> provider
          [] k = "email" -> authResp.Email[1]
          [] k = "local_id" -> authResp.LocalID[1]]

\* the successful replies of accounts:signInWithIdp the model draws from
FirebaseReplies ==
    << [idToken |-> JStr("idt"), refreshToken |-> JStr("rt"),
        expiresIn |-> JStr("3600"), email |-> JStr("a@b"), localId |-> JStr("uid")],
       [id_token |-> JStr("idt"), refresh_token |-> JStr("rt"),
        expires_in |-> JNum(3600)] >>

\* the replies of accounts:signInWithIdp with a status other than 200 the
\* model draws from: no error object, an error object with an empty message,
\* an error object with a message
JObj(v) == [type |-> "object", val |-> v]

FirebaseErrorReplies ==
    << EmptyMap,
       [error |-> JObj([message |-> JStr("")])],
       [error |-> JObj([message |-> JStr("INVALID_IDP_RESPONSE")])] >>

\* parseFirebaseResponse on a status other than 200: the text of the error
firebaseError(data) ==
    IF /\ "error" \in DOMAIN data
       /\ data["error"].type = "object"
       /\ IsString(data["error"].val, "message")
    THEN data["error"].val["message"].val
    ELSE "firebase_error"

----------------------------------------------------------------------------
(* Requests.  A handler goroutine is a record: the request it serves, its
   position in the handler (pc), its local variables, and the response it
   sent.  A goroutine at "idle" or "done" serves no request. *)

NoData == EmptyMap
NoResponse == [type |-> "none", status |-> 0, detail |-> NoMsg, data |-> NoData]

Json(status, detail, data) ==
    [type |-> "json", status |-> status, detail |-> detail, data |-> data]

\* the handler panicked (a nil pointer was dereferenced) and sent no response
\* of its own; the Recovery middleware of gin.Default() (main, types.go line
\* 163) answers 500 with an empty body
Panicked ==
    [type |-> "panic", status |-> 500,
     detail |-> Msg("invalid memory address or nil pointer dereference"),
     data |-> NoData]

\* line 217: the executed template, sent as text/html with status 200
DevicePage(message, code, isError, showForm) ==
    [type |-> "html", status |-> 200, detail |-> message,
     data |-> [code |-> code, error |-> isError, show_form |-> showForm]]

\* c.String(status, text)
Text(status, text) == [type |-> "text", status |-> status, detail |-> text, data |-> NoData]

\* lines 194-218, renderDevicePage(c, message, code, isError, showForm).
\* Without a parsed template (line 195) the page is handed to c.HTML, and the
\* engine of gin.Default() has no HTML renderer loaded: the call dereferences
\* nil and the Recovery middleware answers.  A template whose execution fails
\* answers 500 "Template error" (lines 212-215), else the page is sent with
\* status 200 (line 217).
renderDevicePage(message, code, isError, showForm) ==
    IF env.template = "missing" THEN Panicked
    ELSE IF env.template = "failing" THEN Text(500, Msg("Template error"))
    ELSE DevicePage(message, code, isError, showForm)

\* c.Redirect(http.StatusFound, <provider's authorization URL>?...state=...)
Redirect(provider, state) ==
    [type |-> "redirect", status |-> 302, detail |-> NoMsg,
     data |-> [provider |-> provider, state |-> state,
               scope |-> IF provider = "google" THEN "openid email profile"
                         ELSE "read:user user:email"]]

\* The requests a callback sends upstream, as the form or JSON fields they
\* carry (credentials and tokens by name).  lines 624-631 / 737-746: the
\* provider's token endpoint.
TokenRequest(provider, state) ==
    IF provider = "google"
    THEN [to |-> "https://oauth2.googleapis.com/token",
          code |-> "code", client_id |-> "googleClientID",
          client_secret |-> "googleClientSecret",
          redirect_uri |-> "/api/v1/auth/device/callback/google",
          grant_type |-> "authorization_code"]
    ELSE [to |-> "https://github.com/login/oauth/access_token",
          client_id |-> "githubClientID", client_secret |-> "githubClientSecret",
          code |-> "code", redirect_uri |-> "/api/v1/auth/device/callback/github",
          state |-> state]

\* lines 662 / 773 and firebaseExchange: accounts:signInWithIdp
FirebaseRequest(provider) ==
    [to |-> "accounts:signInWithIdp",
     postBody |-> IF provider = "google" THEN "id_token=idToken&providerId=google.com"
                  ELSE "access_token=accessToken&providerId=github.com",
     requestUri |-> "http://localhost",
     returnSecureToken |-> TRUE]

NoRequest == EmptyMap

Idle ==
    [kind |-> "none", pc |-> "idle",
     bad |-> FALSE,          \* start, poll: the JSON body does not bind
     text |-> <<>>,          \* start: provider; submit: code; callback: error
     num |-> 0,              \* poll: device_code; callback: state
     late |-> FALSE,         \* history: a poll begun after a 200 for its code
     due |-> FALSE,          \* history: a poll begun with its session pending
                             \* and past expiresAt
     swept |-> FALSE,        \* history: this call's sessionCleanup removed a session
     seen |-> NilSession,    \* history, in a run that serves one request at a
                             \* time: a poll's or a submit's session as it was
                             \* when the request began
     spared |-> FALSE,       \* history, in such a run: that session was not due
                             \* for sessionCleanup (poll), had not reached its
                             \* expiresAt (submit)
     upstream |-> "",        \* history: callback: "ok" after a successful exchange,
                             \* "failed" after a failed one
     expiredCodes |-> {},    \* sessionCleanup's list: the codes still to remove
     scanned |-> {},         \* sessionCleanup's list as the scan made it, while
                             \* the loop runs
     begun |-> {},           \* history: the codes of the sessions that were due
                             \* when sessionCleanup read the clock, until it returns
     deviceCode |-> 0,       \* the handler's deviceCode
     session |-> NilSession, \* poll: the copy getSessionCopy returned; start:
                             \* the session built and not yet stored
     saw |-> "",             \* history: the status deviceSubmit left in its
                             \* critical section, until the response is sent
     ptr |-> 0,              \* deviceSubmit's session pointer (0: nil)
     normalized |-> <<>>,    \* deviceSubmit's normalized code
     clock |-> 0,            \* sessionCleanup's and deviceSubmit's now, read
                             \* before the critical section that uses it
     since |-> 0,            \* callback: the time at which the upstream call that
                             \* is in flight began (0: none is in flight)
     sent |-> NoRequest,     \* callback: the request sent upstream and not yet answered
     message |-> NoMsg,      \* the error message about to be stored
     resp |-> NoResponse]    \* the response sent (pc = "done")

\* the objects deviceSubmit handlers point to
Held(rq) == {rq[i].ptr : i \in DOMAIN rq} \ {0}

----------------------------------------------------------------------------
(* The login scenario, followed as history: start(google); poll; submit of the
   session's user code; callback/google with the session's state and a
   successful exchange; poll; poll.  scene.step is the number of its calls
   that have returned, made one after the other by a single client with no
   other call in between; scene.code is the device code the start returned and
   scene.bundle the tokens the callback attached. *)

NoScene == [step |-> 0, code |-> 0, bundle |-> NoTokens]

\* slot (a call that has returned) is the next call of the scenario
SceneCall(sc, slot, ds) ==
    IF sc.step \in {1, 4, 5}
    THEN slot.kind = "poll" /\ ~slot.bad /\ slot.num = sc.code
    ELSE IF sc.step = 2
    THEN /\ slot.kind = "submit"
         /\ sc.code \in DOMAIN ds
         /\ normalizeCode(slot.text) = normalizeCode(ds[sc.code].userCode)
    ELSE /\ sc.step = 3
         /\ slot.kind = "google"
         /\ slot.num = generateState(sc.code)
         /\ slot.upstream = "ok"

\* the scenario's session falls due for sessionCleanup at time t: the scenario
\* is one that runs within the session's lifetime and grace
SceneDue(sc, ds, t) ==
    /\ sc.step \in 1..4
    /\ sc.code \in DOMAIN ds
    /\ CleanupEligible(ds[sc.code], t)

\* the scenario after handler i's step, which ends with slot and the store S
\* (a start that stored its session when the session's lifetime, counted from
\* the start's reading of the clock, was over begins no scenario)
SceneAfter(sc, i, slot, S) ==
    IF \E j \in Requests : j # i /\ req[j].pc # "idle" THEN NoScene
    ELSE IF slot.pc # "done" THEN sc
    ELSE IF slot.kind = "start" /\ ~slot.bad /\ ToLower(slot.text) = GOOGLE
    THEN IF CleanupEligible(S.ds[slot.deviceCode], now) THEN NoScene
         ELSE [step |-> 1, code |-> slot.deviceCode, bundle |-> NoTokens]
    ELSE IF sc.step \in 1..5 /\ SceneCall(sc, slot, deviceSessions)
    THEN [step |-> sc.step + 1, code |-> sc.code,
          bundle |-> IF sc.step = 3 /\ sc.code \in DOMAIN S.ds
                     THEN S.ds[sc.code].tokens ELSE sc.bundle]
    ELSE NoScene

\* The step of handler i ends with the store S and the handler record slot.
\* Objects that are in no map and that no handler points to are collected.
Commit(S, i, slot) ==
    /\ req' = [req EXCEPT ![i] = slot]
    /\ deviceSessions' = S.ds
    /\ stateIndex' = S.si
    /\ userIndex' = S.ui
    /\ detached' = [p \in DOMAIN S.det \cap Held(req') |-> S.det[p]]
    /\ scene' = SceneAfter(scene, i, slot, S)
    /\ profile' = profile

\* the handler sends resp and returns: its locals are dropped
Done(slot, resp) ==
    [Idle EXCEPT !.kind = slot.kind, !.pc = "done", !.bad = slot.bad,
                 !.text = slot.text, !.num = slot.num, !.late = slot.late,
                 !.due = slot.due, !.swept = slot.swept, !.upstream = slot.upstream,
                 !.seen = slot.seen, !.spared = slot.spared, !.message = slot.message,
                 !.deviceCode = slot.deviceCode, !.resp = resp]

\* a handler that has sent its response returns before anything else happens
Returning == \E i \in Requests : req[i].pc = "done"

\* handler i is at position pc of its handler
At(i, pc) == ~Returning /\ req[i].pc = pc

\* sessionMutex with no holder (the zero value of sync.RWMutex, line 27)
Unheld == [writer |-> 0, readers |-> {}]

\* handler i holds sessionMutex, for writing or for reading
Holds(i) == sessionMutex.writer = i \/ i \in sessionMutex.readers

\* a critical section that ends without its Unlock: the variant the release of
\* the lock is checked against
UnlockMissing(m, i) == m

\* sessionMutex.Unlock() (lines 118, 506, and the deferred calls of lines 127,
\* 135, 160, 176), called by handler i
Unlock(m, i) == [m EXCEPT !.writer = 0]

\* a read that ends without its RUnlock, so that a callback keeps the read
\* lock while it waits for the provider and for the identity exchange: the
\* variant the release of the lock before the upstream calls is checked against
RUnlockMissing(m, i) == m

\* sessionMutex.RUnlock() (the deferred calls of lines 148 and 190), called by
\* handler i
RUnlock(m, i) == [m EXCEPT !.readers = @ \ {i}]

\* handler i's critical section ends and leaves the lock as m
Leaves(i, m) == sessionMutex' = m /\ critical' = critical \ {i}

\* handler i takes a step that is not a critical section
Outside(i) == i \notin critical /\ UNCHANGED <<sessionMutex, critical>>

\* a goroutine is free when it serves no request; of the free goroutines the
\* one with the least index takes the next request
Free(i) ==
    /\ ~Returning
    /\ i <= env.goroutines
    /\ At(i, "idle")
    /\ \A j \in Requests : j < i => req[j].pc # "idle"

----------------------------------------------------------------------------
(* Request inputs *)

\* bodies of POST device/start: a body that does not bind, or its provider
\* (the empty text: the field is absent or empty; the struct of types.go
\* lines 4-6 has no binding tag, so that such a body binds)
StartBodies ==
    { [bad |-> TRUE, text |-> <<>>],
      [bad |-> FALSE, text |-> <<>>],
      [bad |-> FALSE, text |-> <<"G", "o", "o", "g", "l", "e">>],
      [bad |-> FALSE, text |-> GITHUB],
      [bad |-> FALSE, text |-> <<"x">>] }

\* bodies of POST device/poll: a body that does not bind, or its device_code
\* (0: the field is absent or empty)
PollBodies ==
    {[bad |-> TRUE, num |-> 0]} \cup {[bad |-> FALSE, num |-> dc] : dc \in 0..MaxSessions}

\* the code field of POST device
SubmitCodes ==
    { <<>>,
      <<"a", "b", "1", "2", "c", "d", "3", "4">>,
      <<"x", "0", "X", "0", " ", "e", "e", "9", "9">>,
      <<"a", "b", "1", "2", "\t", "c", "d", "3", "4">>,
      <<"A", "B", "1", "2">> }

\* the query of GET device/callback/<provider>: state (0: absent), whether code
\* is present, and error
CallbackStates == {generateState(k) : k \in 0..MaxSessions}
CallbackQueries ==
    { [hasCode |-> TRUE, text |-> <<>>],
      [hasCode |-> FALSE, text |-> <<>>],
      [hasCode |-> FALSE, text |-> <<"n", "o">>],
      [hasCode |-> TRUE, text |-> <<"%", "z">>] }

\* A run with several sessions or with concurrent handlers draws from fewer
\* inputs than a run with one session that serves one request at a time: a
\* start that binds or does not, a poll and a callback that name a session
\* the run can create or none, the callback of the provider its sessions are
\* started with, a form without parameters, a submit with a code that can be
\* a session's or is none; its callbacks carry a code or an error that
\* unescapes, and each upstream fails in one way.
Offered(all, few) == IF env.goroutines = 1 /\ env.sessions = 1 THEN all ELSE few

RaceStartBodies ==
    { [bad |-> TRUE, text |-> <<>>],
      [bad |-> FALSE, text |-> <<"G", "o", "o", "g", "l", "e">>] }

RaceSubmitCodes ==
    { <<"a", "b", "1", "2", "c", "d", "3", "4">>,
      <<"A", "B", "1", "2">> }

RaceCallbackQueries ==
    { [hasCode |-> TRUE, text |-> <<>>],
      [hasCode |-> FALSE, text |-> <<"n", "o">>] }

(* Profile handlers: getProfile, updateProfile and deleteProfile.  They share
   no state with the device sessions. *)

\* strings.HasPrefix
HasPrefix(s, prefix) ==
    Len(s) >= Len(prefix) /\ SubSeq(s, 1, Len(prefix)) = prefix

\* strings.TrimSpace: leading and trailing white space is cut.  The white
\* space of unicode.IsSpace in Latin-1 ("VT", "NEL" and "NBSP" are the one
\* characters U+000B, U+0085 and U+00A0).
SpaceRunes == {"\t", "\n", "VT", "\f", "\r", " ", "NEL", "NBSP"}

RECURSIVE TrimLeft(_)
TrimLeft(s) ==
    IF s # <<>> /\ Head(s) \in SpaceRunes THEN TrimLeft(Tail(s)) ELSE s

RECURSIVE TrimRight(_)
TrimRight(s) ==
    IF s # <<>> /\ s[Len(s)] \in SpaceRunes
    THEN TrimRight(SubSeq(s, 1, Len(s) - 1))
    ELSE s

TrimSpace(s) == TrimRight(TrimLeft(s))

BEARER == <<"b", "e", "a", "r", "e", "r", " ">>

\* lines 342-354: the token and the error (NoMsg: nil)
extractToken(authHeader) ==
    IF authHeader = <<>>
    THEN [token |-> <<>>, err |-> Msg("missing authorization header")]
    ELSE IF ~HasPrefix(ToLower(authHeader), BEARER)
    THEN [token |-> <<>>, err |-> Msg("invalid authorization header")]
    ELSE LET token == TrimSpace(SubSeq(authHeader, 8, Len(authHeader)))
         IN IF token = <<>>
            THEN [token |-> <<>>, err |-> Msg("invalid authorization header")]
            ELSE [token |-> token, err |-> NoMsg]

\* The Authorization headers a request is drawn with: absent, well formed
\* (in three spellings of the scheme, one with white space around the
\* token), the scheme with an empty token, the scheme alone, another scheme,
\* a bare token, the scheme with a token of white space, and a token followed
\* by a carriage return.
AuthHeaders ==
    { <<>>,
      <<"B", "e", "a", "r", "e", "r", " ", "t", "o", "k">>,
      <<"b", "e", "a", "r", "e", "r", " ", " ", "t", "o", "k", " ">>,
      <<"B", "E", "A", "R", "E", "R", " ", "t", "o", "k">>,
      <<"B", "e", "a", "r", "e", "r", " ">>,
      <<"B", "e", "a", "r", "e", "r">>,
      <<"B", "a", "s", "i", "c", " ", "t", "o", "k">>,
      <<"t", "o", "k">>,
      <<"B", "e", "a", "r", "e", "r", " ", "NBSP">>,
      <<"B", "e", "a", "r", "e", "r", " ", "t", "o", "k", "\r">> }

\* the X-ID-Token headers a request is drawn with: absent, a token
IdTokenHeaders == { <<>>, <<"x", "i", "d">> }

JBool(v) == [type |-> "bool", val |-> v]
JArr(v) == [type |-> "array", val |-> v]

IsBool(data, key) == key \in DOMAIN data /\ data[key].type = "bool"

DISPLAY_NAME == <<"d", "i", "s", "p", "l", "a", "y", "_", "n", "a", "m", "e">>
PASSWORD == <<"p", "a", "s", "s", "w", "o", "r", "d">>

\* types.go lines 33-36: the json tags of models.AuthUpdateRequest
UpdateTags == {DISPLAY_NAME, PASSWORD}

\* The bodies an update request is drawn with, as the sequence of their
\* members: not JSON, no member, display_name, password, both (with another
\* letter case in a key), a display_name that is a number, and the key
\* displayName (the name of the upstream field) with a text and with a number.
UpdateBodies ==
    << [bad |-> TRUE, fields |-> <<>>],
       [bad |-> FALSE, fields |-> <<>>],
       [bad |-> FALSE, fields |-> << [key |-> DISPLAY_NAME, val |-> JStr("dn")] >>],
       [bad |-> FALSE, fields |-> << [key |-> PASSWORD, val |-> JStr("pw")] >>],
       [bad |-> FALSE,
        fields |-> << [key |-> <<"D", "i", "s", "p", "l", "a", "y", "_", "N", "a", "m", "e">>,
                       val |-> JStr("dn")],
                      [key |-> PASSWORD, val |-> JStr("pw")] >>],
       [bad |-> FALSE, fields |-> << [key |-> DISPLAY_NAME, val |-> JNum(5)] >>],
       [bad |-> FALSE,
        fields |-> << [key |-> <<"d", "i", "s", "p", "l", "a", "y", "N", "a", "m", "e">>,
                       val |-> JStr("dn")] >>],
       [bad |-> FALSE,
        fields |-> << [key |-> <<"d", "i", "s", "p", "l", "a", "y", "N", "a", "m", "e">>,
                       val |-> JNum(5)] >>] >>

NoBody == [bad |-> FALSE, fields |-> <<>>]

\* encoding/json: a member of the body is stored in the field whose tag is its
\* key, letter case apart; a member with another key is skipped
MatchesTag(key, tag) == ToLower(key) = ToLower(tag)

\* c.ShouldBindJSON(&req) of a models.AuthUpdateRequest returns nil: the body
\* is JSON and each member stored in a *string field is a string or null
BindsUpdate(body) ==
    /\ ~body.bad
    /\ \A n \in 1..Len(body.fields) :
           (\E tag \in UpdateTags : MatchesTag(body.fields[n].key, tag))
               => body.fields[n].val.type \in {"string", "null"}

\* the *string field of tag after the decoding (nil: the empty sequence); of
\* several members stored in one field the last is kept
RECURSIVE DecodedField(_, _)
DecodedField(fields, tag) ==
    IF fields = <<>> THEN <<>>
    ELSE LET last == fields[Len(fields)]
         IN IF MatchesTag(last.key, tag)
            THEN IF last.val.type = "string" THEN <<last.val.val>> ELSE <<>>
            ELSE DecodedField(SubSeq(fields, 1, Len(fields) - 1), tag)

\* lines 963-966, 1051: the payload of accounts:lookup and accounts:delete
TokenPayload(to, token) == [to |-> to, idToken |-> token]

\* lines 1011-1020: the payload of accounts:update
UpdatePayload(token, body) ==
    LET DisplayName == DecodedField(body.fields, DISPLAY_NAME)
        Password == DecodedField(body.fields, PASSWORD)
    IN [k \in {"to", "idToken", "returnSecureToken"}
              \cup (IF DisplayName # <<>> THEN {"displayName"} ELSE {})
              \cup (IF Password # <<>> THEN {"password"} ELSE {}) |->
           CASE k = "to" -> "accounts:update"
             [] k = "idToken" -> token
             [] k = "returnSecureToken" -> TRUE
             [] k = "displayName" -> DisplayName[1]
             [] k = "password" -> Password[1]]

\* the accounts:lookup replies with status 200 the model draws from: a user
\* with every field, a user without localId, no user, no users field, a user
\* that is not an object
LookupReplies ==
    << [users |-> JArr(<< JObj([localId |-> JStr("uid"), email |-> JStr("a@b"),
                                displayName |-> JStr("dn"),
                                emailVerified |-> JBool(TRUE),
                                disabled |-> JBool(FALSE)]) >>)],
       [users |-> JArr(<< JObj([email |-> JStr("a@b")]) >>)],
       [users |-> JArr(<<>>)],
       EmptyMap,
       [users |-> JArr(<< JStr("uid") >>)] >>

\* the accounts:update replies with status 200 the model draws from
UpdateReplies ==
    << [localId |-> JStr("uid"), email |-> JStr("a@b"), displayName |-> JStr("dn"),
        emailVerified |-> JBool(TRUE)],
       [localId |-> JStr("uid")],
       [email |-> JStr("a@b"), displayName |-> JStr("dn")] >>

\* the errors of client.Do and of the JSON decoder the model draws from
UpstreamErrors == {"context deadline exceeded", "unexpected EOF"}

\* lines 302-332: models.AuthUserProfile as it is serialised, or the panic of
\* *localID when localId is not a string
parseProfileResponse(data) ==
    IF ~IsString(data, "localId") THEN Panicked
    ELSE Json(200, NoMsg,
              [k \in {"local_id", "email_verified", "disabled"}
                     \cup (IF IsString(data, "email") THEN {"email"} ELSE {})
                     \cup (IF IsString(data, "displayName") THEN {"display_name"}
                           ELSE {}) |->
                  CASE k = "local_id" -> data["localId"].val
                    [] k = "email_verified" ->
                         IF IsBool(data, "emailVerified") THEN data["emailVerified"].val
                         ELSE FALSE
                    [] k = "disabled" ->
                         IF IsBool(data, "disabled") THEN data["disabled"].val
                         ELSE FALSE
                    [] k = "email" -> data["email"].val
                    [] k = "display_name" -> data["displayName"].val])

\* lines 982-994: the response of getProfile to a reply with status 200
LookupResponse(data) ==
    IF ~("users" \in DOMAIN data /\ data["users"].type = "array")
       \/ Len(data["users"].val) = 0
    THEN Json(404, Msg("User not found"), NoData)
    ELSE IF data["users"].val[1].type # "object"
    THEN Json(404, Msg("User not found"), NoData)
    ELSE parseProfileResponse(data["users"].val[1].val)

\* a profile handler serves no request
ProfileIdle ==
    [kind |-> "none", pc |-> "idle",
     auth |-> <<>>,          \* the Authorization header (absent: the empty text)
     xid |-> <<>>,           \* the X-ID-Token header
     body |-> NoBody,        \* update: the request body
     sent |-> NoRequest,     \* the request sent upstream and not yet answered
     called |-> FALSE,       \* history: the handler sent a request upstream
     resp |-> NoResponse]

----------------------------------------------------------------------------
Init ==
    /\ now = Epoch
    /\ deviceSessions = EmptyMap
    /\ stateIndex = EmptyMap
    /\ userIndex = EmptyMap
    /\ detached = EmptyMap
    /\ sessionMutex = Unheld
    /\ critical = {}
    /\ issued = 0
    /\ configured = {"google"}
    /\ env \in Environments
    /\ req = [i \in Requests |-> Idle]
    /\ delivered = [dc \in 1..MaxSessions |-> 0]
    /\ refused = [dc \in 1..MaxSessions |-> 0]
    /\ scene = NoScene
    /\ profile = ProfileIdle

\* The clock advances to a later instant.  An upstream call that is in
\* flight began at most 30 seconds before: the http.Client of each call ends
\* it after its Timeout (lines 265, 635, 747).  Nothing else bounds the time
\* between two statements of a handler: a goroutine waits for sessionMutex,
\* and for the processor, for as long as the others take them.
Tick ==
    /\ ~Returning
    /\ \E t \in env.instants :
          /\ t > now
          /\ \A i \in Requests :
                req[i].since # 0 => t - req[i].since <= upstreamTimeout
          /\ now' = t
          /\ scene' = IF SceneDue(scene, deviceSessions, t) THEN NoScene ELSE scene
    /\ UNCHANGED <<deviceSessions, stateIndex, userIndex, detached, sessionMutex,
                   critical, issued, configured, env, req, delivered, refused,
                   profile>>

----------------------------------------------------------------------------
(* sessionCleanup, called at the top of deviceStart and devicePoll *)

AfterCleanup(slot) == IF slot.kind = "start" THEN "start_body" ELSE "poll_get"

\* lines 103-118: the map is scanned under the lock with the instant t that
\* was read before the lock was asked for
CleanupScan(slot, S, t) ==
    LET codes == expiredCodes(S, t)
    IN [slot EXCEPT !.expiredCodes = codes, !.scanned = codes, !.clock = 0,
                    !.begun = IF codes = {} THEN {} ELSE @,
                    !.pc = IF codes = {} THEN AfterCleanup(slot) ELSE "cleanup_remove"]

\* lines 105-118: sessionCleanup takes the lock, which it may have waited for
\* while other handlers ran and the clock moved, and scans
CleanupLock(i) ==
    /\ At(i, "cleanup_lock")
    /\ i \in critical
    /\ Commit(Store, i, CleanupScan(req[i], Store, req[i].clock))
    /\ Leaves(i, Unlock(sessionMutex, i))
    /\ UNCHANGED <<now, issued, configured, env, delivered, refused, profile>>

\* lines 120-122: one removeSession of the loop (a Go map is ranged over in
\* any order)
CleanupRemove(i) ==
    /\ At(i, "cleanup_remove")
    /\ i \in critical
    /\ \E code \in req[i].expiredCodes :
          LET rest == req[i].expiredCodes \ {code}
          IN Commit(removeSession(Store, code, Held(req)), i,
                    [req[i] EXCEPT !.expiredCodes = rest,
                                   !.scanned = IF rest = {} THEN {} ELSE @,
                                   !.begun = IF rest = {} THEN {} ELSE @,
                                   !.swept = @ \/ code \in DOMAIN deviceSessions,
                                   !.pc = IF rest = {} THEN AfterCleanup(req[i])
                                          ELSE "cleanup_remove"])
    /\ Leaves(i, Unlock(sessionMutex, i))
    /\ UNCHANGED <<now, issued, configured, env, delivered, refused, profile>>

----------------------------------------------------------------------------
(* deviceStart *)

\* the request reaches storeSession
Creates(body, conf) ==
    /\ ~body.bad
    /\ ProviderName(ToLower(body.text)) \in Providers
    /\ checkProvider(ProviderName(ToLower(body.text)), conf)

\* lines 357 and 102: a request arrives and sessionCleanup reads the clock
DeviceStartCleanup(i) ==
    /\ Free(i)
    /\ "start" \in env.routes
    /\ Commit(Store, i, [Idle EXCEPT !.kind = "start", !.pc = "cleanup_lock",
                                     !.clock = now,
                                     !.begun = expiredCodes(Store, now)])
    /\ Outside(i)
    /\ UNCHANGED <<now, issued, configured, env, delivered, refused, profile>>

\* a session stored without a status (the zero value of the field): the
\* variant the closed set of statuses is checked against
NewSessionNoStatus(k, raw, provider, t) ==
    [deviceCode |-> generateDeviceCode(k),
     userCode |-> generateUserCode(raw),
     normalizedUserCode |-> normalizeCode(generateUserCode(raw)),
     provider |-> provider,
     state |-> generateState(k),
     status |-> "",
     createdAt |-> t,
     expiresAt |-> t + deviceSessionTTL,
     completedAt |-> 0,
     tokens |-> NoTokens,
     error |-> NoMsg,
     lastTouched |-> 0]

\* the session of lines 384-393
NewSession(k, raw, provider, t) ==
    [deviceCode |-> generateDeviceCode(k),
     userCode |-> generateUserCode(raw),
     normalizedUserCode |-> normalizeCode(generateUserCode(raw)),
     provider |-> provider,
     state |-> generateState(k),
     status |-> "pending",
     createdAt |-> t,
     expiresAt |-> t + deviceSessionTTL,
     completedAt |-> 0,
     tokens |-> NoTokens,
     error |-> NoMsg,
     lastTouched |-> 0]

\* a start response that also carries the session's state: the variant the
\* confinement of the state is checked against
StartResponseWithState(session) ==
    Json(200, NoMsg,
         [device_code |-> session.deviceCode,
          user_code |-> session.userCode,
          verification_uri_complete |-> session.userCode,
          interval |-> devicePollInterval,
          expires_in |-> deviceSessionTTL,
          state |-> session.state])

\* the JSON of lines 408-415
StartResponse(session) ==
    Json(200, NoMsg,
         [device_code |-> session.deviceCode,
          user_code |-> session.userCode,
          verification_uri_complete |-> session.userCode,
          interval |-> devicePollInterval,
          expires_in |-> deviceSessionTTL])

\* lines 359-393: the body is bound and the provider checked; then the clock
\* is read (line 376), the codes are drawn and the session is built, before
\* storeSession asks for the lock.  A body that creates a session is sent only
\* while fewer than env.sessions sessions were created.
DeviceStart(i) ==
    /\ At(i, "start_body")
    /\ \E body \in Offered(StartBodies, RaceStartBodies) :
          LET provider == ProviderName(ToLower(body.text))
              slot == [req[i] EXCEPT !.bad = body.bad, !.text = body.text]
          IN /\ Creates(body, configured) => issued < env.sessions
             /\ IF body.bad
                THEN /\ Commit(Store, i, Done(slot, Json(400, Msg("Invalid request"), NoData)))
                     /\ UNCHANGED issued
                ELSE IF provider \notin Providers
                THEN /\ Commit(Store, i,
                               Done(slot, Json(400, Msg("Unsupported provider"), NoData)))
                     /\ UNCHANGED issued
                ELSE IF ~checkProvider(provider, configured)
                THEN /\ Commit(Store, i,
                               Done(slot, Json(500, <<provider,
                                                      " OAuth is not configured on the server">>,
                                               NoData)))
                     /\ UNCHANGED issued
                ELSE \E raw \in RawDraws(issued + 1) :
                        LET session == NewSession(issued + 1, raw, provider, now)
                        IN /\ Commit(Store, i, [slot EXCEPT !.session = session,
                                                            !.pc = "start_store"])
                           /\ issued' = issued + 1
    /\ Outside(i)
    /\ UNCHANGED <<now, configured, env, delivered, refused, profile>>

\* lines 394-415: storeSession under the lock, which the handler may have
\* waited for, and the response
DeviceStartStore(i) ==
    /\ At(i, "start_store")
    /\ i \in critical
    /\ LET session == req[i].session
       IN Commit(storeSession(Store, session), i,
                 Done([req[i] EXCEPT !.deviceCode = session.deviceCode],
                      StartResponse(session)))
    /\ Leaves(i, Unlock(sessionMutex, i))
    /\ UNCHANGED <<now, issued, configured, env, delivered, refused, profile>>

----------------------------------------------------------------------------
(* devicePoll *)

\* the session of a device code is pending and past its expiresAt at time t
PollDue(S, deviceCode, t) ==
    /\ deviceCode \in DOMAIN S.ds
    /\ S.ds[deviceCode].status = "pending"
    /\ S.ds[deviceCode].expiresAt <= t

\* lines 419 and 102: a request arrives and sessionCleanup reads the clock
DevicePollCleanup(i) ==
    /\ Free(i)
    /\ "poll" \in env.routes
    /\ \E body \in Offered(PollBodies, {b \in PollBodies : b.num <= env.sessions}) :
          Commit(Store, i,
                 [Idle EXCEPT !.kind = "poll", !.pc = "cleanup_lock",
                              !.clock = now,
                              !.begun = expiredCodes(Store, now),
                              !.bad = body.bad,
                              !.num = body.num,
                              !.late = body.num \in DOMAIN delivered
                                       /\ delivered[body.num] > 0,
                              !.due = ~body.bad /\ PollDue(Store, body.num, now),
                              !.seen = IF body.bad \/ env.goroutines > 1
                                       THEN NilSession
                                       ELSE getSessionCopy(Store, body.num),
                              !.spared = ~body.bad /\ env.goroutines = 1
                                         /\ body.num \in DOMAIN deviceSessions
                                         /\ ~CleanupEligible(deviceSessions[body.num],
                                                             now)])
    /\ Outside(i)
    /\ UNCHANGED <<now, issued, configured, env, delivered, refused, profile>>

\* lines 421-431: the body is bound and getSessionCopy takes the copy under
\* the read lock
DevicePoll(i) ==
    /\ At(i, "poll_get")
    /\ LET session == getSessionCopy(Store, req[i].num)
           slot == [req[i] EXCEPT !.deviceCode = req[i].num, !.session = session]
       IN Commit(Store, i,
                 IF req[i].bad
                 THEN Done(req[i], Json(400, Msg("Invalid request"), NoData))
                 ELSE IF session = NilSession
                 THEN Done(req[i], Json(404, Msg("Unknown device code"), NoData))
                 ELSE [slot EXCEPT !.pc = "poll_clock"])
    /\ IF req[i].bad THEN Outside(i)
       ELSE i \in critical /\ Leaves(i, RUnlock(sessionMutex, i))
    /\ UNCHANGED <<now, issued, configured, env, delivered, refused, profile>>

\* lines 433-445: the clock is read after the lock was released, and the copy
\* decides
DevicePollDecide(i) ==
    /\ At(i, "poll_clock")
    /\ LET session == req[i].session
       IN Commit(Store, i,
                 IF session.expiresAt <= now /\ session.status = "pending"
                 THEN [req[i] EXCEPT !.pc = "poll_mark"]
                 ELSE IF session.status \in {"pending", "authorizing"}
                 THEN Done(req[i], Json(202, NoMsg, [status |-> "pending"]))
                 ELSE [req[i] EXCEPT !.pc = "poll_remove"])
    /\ Outside(i)
    /\ UNCHANGED <<now, issued, configured, env, delivered, refused, profile>>

\* line 435
DevicePollMark(i) ==
    /\ At(i, "poll_mark")
    /\ i \in critical
    /\ Commit(markSession(Store, req[i].deviceCode, "expired", NoMsg, now), i,
              [req[i] EXCEPT !.pc = "poll_remove"])
    /\ Leaves(i, Unlock(sessionMutex, i))
    /\ UNCHANGED <<now, issued, configured, env, delivered, refused, profile>>

\* the response devicePoll sends after its removeSession, from its copy
\* (a copy that is pending was found expired)
PollResponse(session) ==
    IF session.status = "pending"
    THEN Json(410, Msg("Device authorization expired"), NoData)
    ELSE IF session.status = "complete"
    THEN Json(200, NoMsg, session.tokens)
    ELSE IF session.status = "error"
    THEN Json(400, IF session.error = NoMsg THEN Msg("Authorization failed")
                   ELSE session.error, NoData)
    ELSE IF session.status = "expired"
    THEN Json(410, Msg("Device authorization expired"), NoData)
    ELSE Json(400, Msg("Invalid device session state"), NoData)

\* lines 436-437, 447-471: removeSession, then the response
DevicePollRemove(i) ==
    /\ At(i, "poll_remove")
    /\ i \in critical
    /\ LET resp == PollResponse(req[i].session)
       IN /\ Commit(removeSession(Store, req[i].deviceCode, Held(req)), i,
                    Done(req[i], resp))
          /\ delivered' = IF resp.status = 200
                          THEN [delivered EXCEPT ![req[i].deviceCode] = @ + 1]
                          ELSE delivered
          /\ refused' = IF req[i].session.status = "error"
                        THEN [refused EXCEPT ![req[i].deviceCode] = @ + 1]
                        ELSE refused
    /\ Leaves(i, Unlock(sessionMutex, i))
    /\ UNCHANGED <<now, issued, configured, env>>

----------------------------------------------------------------------------
(* deviceForm *)

\* c.DefaultQuery(key, defaultValue): the parameter when the query has it
\* (also when it is empty), else the default.  A parameter is the empty
\* sequence when absent and the one-element sequence of its text when present.
DefaultQuery(param, defaultValue) == IF param = <<>> THEN defaultValue ELSE param[1]

\* the query of GET device: message (absent, present and empty, present),
\* error and code (absent: the empty text)
FormQueries ==
    { [message |-> <<>>, error |-> "", code |-> <<>>],
      [message |-> << <<>> >>, error |-> "", code |-> <<>>],
      [message |-> << <<"n", "o">> >>, error |-> "true", code |-> <<"A", "B", "1", "2">>] }

\* lines 474-479: a request arrives and the page is rendered
DeviceForm(i) ==
    /\ Free(i)
    /\ "form" \in env.routes
    /\ \E q \in Offered(FormQueries, {q \in FormQueries : q.message = <<>>}) :
          LET message == DefaultQuery(q.message,
                                      Msg("Enter the device code shown in your CLI."))
          IN Commit(Store, i,
                    Done([Idle EXCEPT !.kind = "form", !.text = q.code,
                                      !.message = message],
                         renderDevicePage(message, q.code, q.error = "true", TRUE)))
    /\ Outside(i)
    /\ UNCHANGED <<now, issued, configured, env, delivered, refused, profile>>

----------------------------------------------------------------------------
(* deviceSubmit *)

\* the object behind deviceSubmit's session pointer: the map's, or the one
\* deleted from the map since
Deref(S, ptr) == IF ptr \in DOMAIN S.ds THEN S.ds[ptr] ELSE S.det[ptr]

\* a touch that also extends the session's lifetime: the variant the fixed
\* expiry is checked against
touchSessionExtending(session, t) ==
    LET expired == IF session.expiresAt <= t
                   THEN [session EXCEPT !.status = "expired"] ELSE session
        touched == [expired EXCEPT !.lastTouched = t,
                                   !.expiresAt = t + deviceSessionTTL]
    IN IF touched.status = "pending"
       THEN [touched EXCEPT !.status = "authorizing"] ELSE touched

\* the writes of lines 497-503 to the live session
touchSession(session, t) ==
    LET expired == IF session.expiresAt <= t
                   THEN [session EXCEPT !.status = "expired"] ELSE session
        touched == [expired EXCEPT !.lastTouched = t]
    IN IF touched.status = "pending"
       THEN [touched EXCEPT !.status = "authorizing"] ELSE touched

\* lines 481-489: a request arrives; an empty code is answered at once, else
\* the code is normalised and the clock is read, before the lock is asked for
DeviceSubmit(i) ==
    /\ Free(i)
    /\ "submit" \in env.routes
    /\ \E code \in Offered(SubmitCodes, RaceSubmitCodes) :
          LET slot == [Idle EXCEPT !.kind = "submit", !.text = code]
          IN Commit(Store, i,
                    IF code = <<>>
                    THEN Done(slot, renderDevicePage(Msg("Device code is required"),
                                                     code, TRUE, TRUE))
                    ELSE [slot EXCEPT !.pc = "submit_lock",
                                      !.normalized = normalizeCode(code),
                                      !.clock = now])
    /\ Outside(i)
    /\ UNCHANGED <<now, issued, configured, env, delivered, refused, profile>>

\* lines 491-511: the critical section, with the time read before it: the
\* session is looked up through userIndex and written through the pointer
DeviceSubmitLock(i) ==
    /\ At(i, "submit_lock")
    /\ i \in critical
    /\ LET code == req[i].text
           deviceCode == MapGet(userIndex, req[i].normalized)
           found == deviceCode # 0 /\ deviceCode \in DOMAIN deviceSessions
       IN IF found
          THEN Commit([Store EXCEPT !.ds[deviceCode] = touchSession(@, req[i].clock)], i,
                      [req[i] EXCEPT !.pc = "submit_expired", !.deviceCode = deviceCode,
                                     !.ptr = deviceCode,
                                     !.saw = touchSession(deviceSessions[deviceCode],
                                                          req[i].clock).status,
                                     !.seen = IF env.goroutines > 1 THEN NilSession
                                              ELSE deviceSessions[deviceCode],
                                     !.spared = env.goroutines = 1
                                                /\ deviceSessions[deviceCode].expiresAt
                                                       > req[i].clock])
          ELSE Commit(Store, i,
                      Done(req[i], renderDevicePage(
                          Msg("Invalid or expired device code. Please try again."),
                          code, TRUE, TRUE)))
    /\ Leaves(i, Unlock(sessionMutex, i))
    /\ UNCHANGED <<now, issued, configured, env, delivered, refused, profile>>

\* line 513: session.Status is read through the pointer, outside the lock
DeviceSubmitExpired(i) ==
    /\ At(i, "submit_expired")
    /\ Commit(Store, i,
              [req[i] EXCEPT !.pc = IF Deref(Store, req[i].ptr).status = "expired"
                                    THEN "submit_remove" ELSE "submit_route"])
    /\ Outside(i)
    /\ UNCHANGED <<now, issued, configured, env, delivered, refused, profile>>

\* lines 514-516
DeviceSubmitRemove(i) ==
    /\ At(i, "submit_remove")
    /\ i \in critical
    /\ Commit(removeSession(Store, req[i].deviceCode, Held(req)), i,
              Done(req[i], renderDevicePage(
                  Msg("Device code has expired. Restart the login from the CLI."),
                  req[i].text, TRUE, TRUE)))
    /\ Leaves(i, Unlock(sessionMutex, i))
    /\ UNCHANGED <<now, issued, configured, env, delivered, refused, profile>>

\* lines 519-574: deviceSubmit is about to call markSession: the session it
\* points to is not complete and its provider cannot be used
SubmitMarks(i) ==
    LET session == Deref(Store, req[i].ptr)
    IN /\ session.status # "complete"
       /\ ~(session.provider \in Providers /\ session.provider \in configured)

\* lines 519-574: session.Status, session.Provider and session.State are read
\* through the pointer; markSession when the provider cannot be used
DeviceSubmitRoute(i) ==
    /\ At(i, "submit_route")
    /\ LET session == Deref(Store, req[i].ptr)
       IN IF session.status = "complete"
          THEN Commit(Store, i,
                      Done(req[i], renderDevicePage(
                          Msg("This code has already been used. Return to the CLI."),
                          req[i].text, TRUE, TRUE)))
          ELSE IF session.provider \in Providers /\ session.provider \in configured
          THEN Commit(Store, i, Done(req[i], Redirect(session.provider, session.state)))
          ELSE IF session.provider \in Providers
          THEN Commit(markSession(Store, req[i].deviceCode, "error",
                                  <<ProviderTitle(session.provider),
                                    " OAuth not configured">>, now), i,
                      Done(req[i], renderDevicePage(
                          <<ProviderTitle(session.provider),
                            " login is not available. Contact support.">>,
                          req[i].text, TRUE, TRUE)))
          ELSE Commit(markSession(Store, req[i].deviceCode, "error",
                                  Msg("Unsupported provider"), now), i,
                      Done(req[i], renderDevicePage(Msg("Unsupported provider"),
                                                    req[i].text, TRUE, TRUE)))
    /\ IF SubmitMarks(i) THEN i \in critical /\ Leaves(i, Unlock(sessionMutex, i))
       ELSE Outside(i)
    /\ UNCHANGED <<now, issued, configured, env, delivered, refused, profile>>

----------------------------------------------------------------------------
(* callbackGoogle and callbackGitHub: the same steps, with the provider's
   name, messages and token field *)

\* lines 577-584 / 688-695: a request arrives; without a state it is answered
\* at once, else findState is called
CallbackResolve(i) ==
    /\ Free(i)
    /\ "callback" \in env.routes
    /\ \E provider \in Offered(Providers, {"google"}),
          state \in Offered(CallbackStates,
                               {generateState(k) : k \in 0..env.sessions}) :
          LET slot == [Idle EXCEPT !.kind = provider, !.num = state]
          IN Commit(Store, i,
                    IF state = 0
                    THEN Done(slot, renderDevicePage(Msg("Missing state parameter"),
                                                     <<>>, TRUE, FALSE))
                    ELSE [slot EXCEPT !.pc = "cb_find"])
    /\ Outside(i)
    /\ UNCHANGED <<now, issued, configured, env, delivered, refused, profile>>

\* line 587 / 698: findState looks the state up under the read lock
CallbackFindState(i) ==
    /\ At(i, "cb_find")
    /\ i \in critical
    /\ Commit(Store, i, [req[i] EXCEPT !.pc = "cb_get",
                                       !.deviceCode = findState(Store, req[i].num)])
    /\ Leaves(i, RUnlock(sessionMutex, i))
    /\ UNCHANGED <<now, issued, configured, env, delivered, refused, profile>>

\* lines 588-592 / 699-703: getSessionCopy takes the copy under the read lock,
\* in a critical section of its own
CallbackGetSession(i) ==
    /\ At(i, "cb_get")
    /\ i \in critical
    /\ LET session == getSessionCopy(Store, req[i].deviceCode)
       IN Commit(Store, i,
                 IF req[i].deviceCode = 0 \/ session = NilSession
                 THEN Done(req[i], renderDevicePage(
                          Msg("Session not found or expired. Return to the CLI and try again."),
                          <<>>, TRUE, FALSE))
                 ELSE [req[i] EXCEPT !.pc = "cb_clock", !.session = session])
    /\ Leaves(i, RUnlock(sessionMutex, i))
    /\ UNCHANGED <<now, issued, configured, env, delivered, refused, profile>>

\* lines 594-613 / 705-724: the clock is read after both lookups, and the copy
\* and the query (its error and code parameters, read at lines 578-580) decide
CallbackDecide(i) ==
    /\ At(i, "cb_clock")
    /\ \E q \in Offered(CallbackQueries, RaceCallbackQueries) :
          LET slot == [req[i] EXCEPT !.text = q.text, !.session = NilSession]
          IN Commit(Store, i,
                    IF req[i].session.expiresAt <= now
                    THEN [slot EXCEPT !.pc = "cb_mark_expired"]
                    ELSE IF q.text # <<>>
                    THEN [slot EXCEPT !.pc = "cb_mark_error",
                                      !.message = QueryUnescape(q.text)]
                    ELSE IF ~q.hasCode
                    THEN [slot EXCEPT !.pc = "cb_mark_error",
                                      !.message = Msg("Missing authorization code")]
                    ELSE [slot EXCEPT !.pc = "cb_token"])
    /\ Outside(i)
    /\ UNCHANGED <<now, issued, configured, env, delivered, refused, profile>>

\* line 596 / 707
CallbackMarkExpired(i) ==
    /\ At(i, "cb_mark_expired")
    /\ i \in critical
    /\ Commit(markSession(Store, req[i].deviceCode, "expired", NoMsg, now), i,
              [req[i] EXCEPT !.pc = "cb_remove"])
    /\ Leaves(i, Unlock(sessionMutex, i))
    /\ UNCHANGED <<now, issued, configured, env, delivered, refused, profile>>

\* lines 597-599 / 708-710
CallbackRemove(i) ==
    /\ At(i, "cb_remove")
    /\ i \in critical
    /\ Commit(removeSession(Store, req[i].deviceCode, Held(req)), i,
              Done(req[i], renderDevicePage(
                  Msg("Session has expired. Please restart the login from the CLI."),
                  <<>>, TRUE, FALSE)))
    /\ Leaves(i, Unlock(sessionMutex, i))
    /\ UNCHANGED <<now, issued, configured, env, delivered, refused, profile>>

\* lines 604-605, 610-611 / 715-716, 721-722
CallbackMarkError(i) ==
    /\ At(i, "cb_mark_error")
    /\ i \in critical
    /\ Commit(markSession(Store, req[i].deviceCode, "error", req[i].message, now), i,
              Done(req[i], renderDevicePage(
                  IF req[i].text # <<>> THEN <<"Authorization failed: ">> \o req[i].message
                  ELSE req[i].message,
                  <<>>, TRUE, FALSE)))
    /\ Leaves(i, Unlock(sessionMutex, i))
    /\ UNCHANGED <<now, issued, configured, env, delivered, refused, profile>>

\* how the provider's token endpoint can fail: no reply (within 30 s), a
\* status other than 200, a body without the token
ProviderFailures == {"network", "status", "token"}

ProviderFailureMessage(provider, failure) ==
    IF failure = "network" THEN Msg("context deadline exceeded")
    ELSE IF failure = "status" THEN <<ProviderTitle(provider), " authorization failed">>
    ELSE IF provider = "google" THEN Msg("Missing Google ID token")
    ELSE Msg("Missing GitHub access token")

ProviderFailurePage(provider, failure) ==
    IF failure = "network"
    THEN <<"Failed to contact ", ProviderTitle(provider), ". Please try again.">>
    ELSE IF failure = "status"
    THEN <<ProviderTitle(provider), " authorization failed. Please try again.">>
    ELSE IF provider = "google" THEN Msg("Google response did not include an ID token")
    ELSE Msg("GitHub response did not include an access token")

\* lines 615-636 / 726-748, 254-266: callback i builds the request to the
\* provider's token endpoint, or to the identity provider, and client.Do
\* sends it; the call is in flight from now
UpstreamCalls(i) ==
    /\ ~Returning
    /\ req[i].pc \in {"cb_token", "cb_exchange"}
    /\ Commit(Store, i,
              IF req[i].pc = "cb_token"
              THEN [req[i] EXCEPT !.pc = "cb_provider", !.since = now,
                                  !.sent = TokenRequest(req[i].kind, req[i].num)]
              ELSE [req[i] EXCEPT !.pc = "cb_firebase", !.since = now,
                                  !.sent = FirebaseRequest(req[i].kind)])
    /\ Outside(i)
    /\ UNCHANGED <<now, issued, configured, env, delivered, refused, profile>>

\* lines 636 / 748, 266: client.Do returns to callback i with an answer after
\* which the callback calls markSession or setSessionTokens (ProviderFail,
\* FirebaseFail and FirebaseOk say which answer it was)
UpstreamReturns(i) ==
    /\ ~Returning
    /\ req[i].since # 0
    /\ Commit(Store, i, [req[i] EXCEPT !.since = 0])
    /\ Outside(i)
    /\ UNCHANGED <<now, issued, configured, env, delivered, refused, profile>>

\* lines 635-660 / 746-771: the token endpoint failed; markSession
ProviderFail(i) ==
    /\ At(i, "cb_provider")
    /\ i \in critical
    /\ \E failure \in Offered(ProviderFailures, {"status"}) :
          LET message == ProviderFailureMessage(req[i].kind, failure)
          IN Commit(markSession(Store, req[i].deviceCode, "error", message, now), i,
                    Done([req[i] EXCEPT !.message = message, !.upstream = "failed"],
                         renderDevicePage(ProviderFailurePage(req[i].kind, failure),
                                          <<>>, TRUE, FALSE)))
    /\ Leaves(i, Unlock(sessionMutex, i))
    /\ UNCHANGED <<now, issued, configured, env, delivered, refused, profile>>

\* lines 636-663 / 748-774: client.Do returns the token endpoint's answer,
\* and it holds a token; the callback goes on to firebaseExchange
ProviderOk(i) ==
    /\ At(i, "cb_provider")
    /\ req[i].since # 0
    /\ Commit(Store, i, [req[i] EXCEPT !.pc = "cb_exchange", !.since = 0,
                                       !.sent = NoRequest])
    /\ Outside(i)
    /\ UNCHANGED <<now, issued, configured, env, delivered, refused, profile>>

\* lines 664-668 / 775-779: firebaseExchange returned an error; markSession
FirebaseFail(i) ==
    /\ At(i, "cb_firebase")
    /\ i \in critical
    /\ \E n \in Offered(1..Len(FirebaseErrorReplies), {Len(FirebaseErrorReplies)}) :
          LET text == firebaseError(FirebaseErrorReplies[n])
              message == IF text = "" THEN NoMsg ELSE Msg(text)
          IN Commit(markSession(Store, req[i].deviceCode, "error", message, now), i,
                    Done([req[i] EXCEPT !.message = message, !.upstream = "failed"],
                         renderDevicePage(Msg("Firebase authentication failed"),
                                          <<>>, TRUE, FALSE)))
    /\ Leaves(i, Unlock(sessionMutex, i))
    /\ UNCHANGED <<now, issued, configured, env, delivered, refused, profile>>

\* lines 670-685 / 781-796: firebaseExchange returned data; setSessionTokens
FirebaseOk(i) ==
    /\ At(i, "cb_firebase")
    /\ i \in critical
    /\ \E n \in 1..Len(FirebaseReplies) :
          Commit(setSessionTokens(Store, req[i].deviceCode,
                                  authDict(parseAuthResponse(FirebaseReplies[n]), req[i].kind),
                                  now), i,
                 Done([req[i] EXCEPT !.upstream = "ok"], renderDevicePage(
                     Msg("Authentication complete. You may return to the CLI to finish logging in."),
                     <<>>, FALSE, FALSE)))
    /\ Leaves(i, Unlock(sessionMutex, i))
    /\ UNCHANGED <<now, issued, configured, env, delivered, refused, profile>>

----------------------------------------------------------------------------
(* sessionMutex *)

\* The statement handler i is at is sessionMutex.Lock(): that of sessionCleanup
\* (line 105), storeSession (126), removeSession (134), markSession (159),
\* setSessionTokens (175) or deviceSubmit (491); a callback is at the Lock of
\* markSession or setSessionTokens once its upstream call has returned.
Locks(i) ==
    /\ i \notin critical
    /\ req[i].since = 0
    /\ \/ req[i].pc \in {"cleanup_lock", "cleanup_remove", "start_store", "poll_mark",
                          "poll_remove", "submit_lock", "submit_remove",
                          "cb_mark_expired", "cb_remove", "cb_mark_error",
                          "cb_provider", "cb_firebase"}
       \/ req[i].pc = "submit_route" /\ SubmitMarks(i)

\* Lock() returns to handler i: no handler holds the lock, for writing or for
\* reading (the lock is not reentrant: a handler that holds it and calls Lock
\* waits for itself)
Lock(i) ==
    /\ ~Returning
    /\ Locks(i)
    /\ sessionMutex = Unheld
    /\ sessionMutex' = [sessionMutex EXCEPT !.writer = i]
    /\ critical' = critical \cup {i}
    /\ UNCHANGED <<now, deviceSessions, stateIndex, userIndex, detached, issued,
                   configured, env, req, delivered, refused, scene, profile>>

\* RLock() returns to handler i: no handler holds the lock for writing, and
\* none is at Lock while others hold it for reading (sync.RWMutex: a Lock
\* that waits for readers holds back the readers that come after it).  The
\* statement the handler is at is the RLock of getSessionCopy (line 147) or
\* findState (189); devicePoll calls getSessionCopy once its body is bound.
RLock(i) ==
    /\ ~Returning
    /\ \/ req[i].pc \in {"cb_find", "cb_get"}
       \/ req[i].pc = "poll_get" /\ ~req[i].bad
    /\ i \notin critical
    /\ sessionMutex.writer = 0
    /\ sessionMutex.readers = {} \/ \A j \in Requests : ~Locks(j)
    /\ sessionMutex' = [sessionMutex EXCEPT !.readers = @ \cup {i}]
    /\ critical' = critical \cup {i}
    /\ UNCHANGED <<now, deviceSessions, stateIndex, userIndex, detached, issued,
                   configured, env, req, delivered, refused, scene, profile>>

----------------------------------------------------------------------------
\* the response is sent; the goroutine is free again
Return(i) ==
    /\ req[i].pc = "done"
    /\ req' = [req EXCEPT ![i] = Idle]
    /\ UNCHANGED <<now, deviceSessions, stateIndex, userIndex, detached,
                   sessionMutex, critical, issued, configured, env, delivered,
                   refused, scene, profile>>

Next ==
    \/ Tick
    \/ \E i \in Requests : DeviceStartCleanup(i)
    \/ \E i \in Requests : DevicePollCleanup(i)
    \/ \E i \in Requests : CleanupLock(i)
    \/ \E i \in Requests : CleanupRemove(i)
    \/ \E i \in Requests : DeviceStart(i)
    \/ \E i \in Requests : DeviceStartStore(i)
    \/ \E i \in Requests : DevicePoll(i)
    \/ \E i \in Requests : DevicePollDecide(i)
    \/ \E i \in Requests : DevicePollMark(i)
    \/ \E i \in Requests : DevicePollRemove(i)
    \/ \E i \in Requests : DeviceForm(i)
    \/ \E i \in Requests : DeviceSubmit(i)
    \/ \E i \in Requests : DeviceSubmitLock(i)
    \/ \E i \in Requests : DeviceSubmitExpired(i)
    \/ \E i \in Requests : DeviceSubmitRemove(i)
    \/ \E i \in Requests : DeviceSubmitRoute(i)
    \/ \E i \in Requests : CallbackResolve(i)
    \/ \E i \in Requests : CallbackFindState(i)
    \/ \E i \in Requests : CallbackGetSession(i)
    \/ \E i \in Requests : CallbackDecide(i)
    \/ \E i \in Requests : CallbackMarkExpired(i)
    \/ \E i \in Requests : CallbackRemove(i)
    \/ \E i \in Requests : CallbackMarkError(i)
    \/ \E i \in Requests : UpstreamCalls(i)
    \/ \E i \in Requests : UpstreamReturns(i)
    \/ \E i \in Requests : ProviderFail(i)
    \/ \E i \in Requests : ProviderOk(i)
    \/ \E i \in Requests : FirebaseFail(i)
    \/ \E i \in Requests : FirebaseOk(i)
    \/ \E i \in Requests : Lock(i)
    \/ \E i \in Requests : RLock(i)
    \/ \E i \in Requests : Return(i)

Spec == Init /\ [][Next]_vars

----------------------------------------------------------------------------
(* Runs in which time keeps advancing and requests keep arriving.  The run
   serves one request at a time and its clock reaches Horizon, the expiresAt
   of a session created at Epoch. *)

Horizon == Epoch + deviceSessionTTL

LiveEnvironment ==
    [sessions |-> 1, goroutines |-> 1, instants |-> {Epoch, Horizon},
     routes |-> Routes, template |-> "parsed"]

LiveInit ==
    /\ now = Epoch
    /\ deviceSessions = EmptyMap
    /\ stateIndex = EmptyMap
    /\ userIndex = EmptyMap
    /\ detached = EmptyMap
    /\ sessionMutex = Unheld
    /\ critical = {}
    /\ issued = 0
    /\ configured = {"google"}
    /\ env = LiveEnvironment
    /\ req = [i \in Requests |-> Idle]
    /\ delivered = [dc \in 1..MaxSessions |-> 0]
    /\ refused = [dc \in 1..MaxSessions |-> 0]
    /\ scene = NoScene
    /\ profile = ProfileIdle

\* a start or a poll arrives and runs sessionCleanup
Sweeps == \E i \in Requests : DeviceStartCleanup(i) \/ DevicePollCleanup(i)

\* handler i takes the next step of the request it serves: every call a
\* handler makes returns (the upstream calls within their 30 seconds, Lock and
\* RLock when the lock is free)
Serves(i) ==
    \/ CleanupLock(i) \/ CleanupRemove(i) \/ DeviceStart(i) \/ DeviceStartStore(i)
    \/ DevicePoll(i) \/ DevicePollDecide(i) \/ DevicePollMark(i)
    \/ DevicePollRemove(i)
    \/ DeviceSubmitLock(i) \/ DeviceSubmitExpired(i) \/ DeviceSubmitRemove(i)
    \/ DeviceSubmitRoute(i)
    \/ CallbackFindState(i) \/ CallbackGetSession(i) \/ CallbackDecide(i)
    \/ CallbackMarkExpired(i) \/ CallbackRemove(i) \/ CallbackMarkError(i)
    \/ UpstreamCalls(i) \/ UpstreamReturns(i) \/ ProviderFail(i) \/ ProviderOk(i) \/ FirebaseFail(i) \/ FirebaseOk(i)
    \/ Lock(i) \/ RLock(i) \/ Return(i)

Handles == \E i \in Requests : Serves(i)

\* time keeps advancing, start and poll requests keep arriving, and handlers
\* run to their end
FairSpec ==
    /\ LiveInit /\ [][Next]_vars
    /\ SF_vars(Tick)
    /\ SF_vars(Sweeps)
    /\ WF_vars(Handles)

----------------------------------------------------------------------------
(* Runs in which every goroutine keeps running.  A goroutine that is not
   blocked takes its next step, and one that waits in Lock or RLock gets the
   lock when it is free again and again: sync.RWMutex queues its waiters (a
   waiting Lock holds back new readers, and a waiter that has waited for a
   millisecond is handed the lock).  The runs serve one request at a time on
   every route while the clock advances, or two at once: on every route that
   takes the lock, or on the routes that sweep while the clock advances. *)

LockInit ==
    /\ now = Epoch
    /\ deviceSessions = EmptyMap
    /\ stateIndex = EmptyMap
    /\ userIndex = EmptyMap
    /\ detached = EmptyMap
    /\ sessionMutex = Unheld
    /\ critical = {}
    /\ issued = 0
    /\ configured = {"google"}
    /\ env \in { LiveEnvironment,
                 [sessions |-> 1, goroutines |-> MaxRequests, instants |-> {Epoch},
                  routes |-> Routes \ {"form"}, template |-> "parsed"],
                 [sessions |-> 1, goroutines |-> MaxRequests, instants |-> RaceInstants,
                  routes |-> SweepRoutes, template |-> "parsed"] }
    /\ req = [i \in Requests |-> Idle]
    /\ delivered = [dc \in 1..MaxSessions |-> 0]
    /\ refused = [dc \in 1..MaxSessions |-> 0]
    /\ scene = NoScene
    /\ profile = ProfileIdle

LockSpec ==
    /\ LockInit /\ [][Next]_vars
    /\ \A i \in Requests : SF_vars(Serves(i))

(* The profile handlers.  A handler runs from the arrival of its request to
   its 401 or 400 response or to the request it sends upstream; the reply of
   the identity provider is the next step. *)

FlowVars ==
    <<now, deviceSessions, stateIndex, userIndex, detached, sessionMutex, critical,
      issued, configured, env, req, delivered, refused, scene>>

\* the handler sent resp
Answered(slot, resp) == [slot EXCEPT !.pc = "done", !.sent = NoRequest, !.resp = resp]

\* the handler sent payload upstream and waits in client.Do
Calling(slot, payload) ==
    [slot EXCEPT !.pc = "upstream", !.sent = payload, !.called = TRUE]

\* lines 949-968: X-ID-Token, and the Authorization header when it is empty
GetProfile(auth, xid) ==
    /\ profile.pc = "idle"
    /\ LET slot == [ProfileIdle EXCEPT !.kind = "get", !.auth = auth, !.xid = xid]
           got == IF xid # <<>> THEN [token |-> xid, err |-> NoMsg]
                  ELSE extractToken(auth)
       IN profile' = IF got.err # NoMsg
                     THEN Answered(slot, Json(401, got.err, NoData))
                     ELSE Calling(slot, TokenPayload("accounts:lookup", got.token))
    /\ UNCHANGED FlowVars

\* lines 997-1026: the Authorization header only, then the body
UpdateProfile(auth, xid, body) ==
    /\ profile.pc = "idle"
    /\ LET slot == [ProfileIdle EXCEPT !.kind = "update", !.auth = auth,
                                       !.xid = xid, !.body = body]
           got == extractToken(auth)
       IN profile' = IF got.err # NoMsg
                     THEN Answered(slot, Json(401, got.err, NoData))
                     ELSE IF ~BindsUpdate(body)
                     THEN Answered(slot, Json(400, Msg("Invalid request"), NoData))
                     ELSE Calling(slot, UpdatePayload(got.token, body))
    /\ UNCHANGED FlowVars

\* lines 1043-1054: the Authorization header only
DeleteProfile(auth, xid) ==
    /\ profile.pc = "idle"
    /\ LET slot == [ProfileIdle EXCEPT !.kind = "delete", !.auth = auth, !.xid = xid]
           got == extractToken(auth)
       IN profile' = IF got.err # NoMsg
                     THEN Answered(slot, Json(401, got.err, NoData))
                     ELSE Calling(slot, TokenPayload("accounts:delete", got.token))
    /\ UNCHANGED FlowVars

\* client.Do fails, or the reply is not JSON: 400 with the error's text
ProfileFail ==
    /\ profile.pc = "upstream"
    /\ \E e \in UpstreamErrors :
          profile' = Answered(profile, Json(400, Msg(e), NoData))
    /\ UNCHANGED FlowVars

\* the reply has a status other than 200: 400 with parseFirebaseResponse's error
ProfileRefused ==
    /\ profile.pc = "upstream"
    /\ \E k \in 1..Len(FirebaseErrorReplies) :
          profile' = Answered(profile,
                              Json(400, Msg(firebaseError(FirebaseErrorReplies[k])),
                                   NoData))
    /\ UNCHANGED FlowVars

\* lines 976-994: accounts:lookup replied with status 200
GetProfileOk ==
    /\ profile.pc = "upstream" /\ profile.kind = "get"
    /\ \E k \in 1..Len(LookupReplies) :
          profile' = Answered(profile, LookupResponse(LookupReplies[k]))
    /\ UNCHANGED FlowVars

\* lines 1034-1040: accounts:update replied with status 200
UpdateProfileOk ==
    /\ profile.pc = "upstream" /\ profile.kind = "update"
    /\ \E k \in 1..Len(UpdateReplies) :
          profile' = Answered(profile, parseProfileResponse(UpdateReplies[k]))
    /\ UNCHANGED FlowVars

\* lines 1062-1074: accounts:delete replied with status 200
DeleteProfileOk ==
    /\ profile.pc = "upstream" /\ profile.kind = "delete"
    /\ profile' = Answered(profile,
                           Json(200, NoMsg,
                                [status |-> "success",
                                 message |-> "Account deleted successfully"]))
    /\ UNCHANGED FlowVars

\* the response is sent (or the panic has ended the handler)
ProfileReturn ==
    /\ profile.pc = "done"
    /\ profile' = ProfileIdle
    /\ UNCHANGED FlowVars

ProfileNext ==
    \/ \E auth \in AuthHeaders, xid \in IdTokenHeaders : GetProfile(auth, xid)
    \/ \E auth \in AuthHeaders, xid \in IdTokenHeaders, k \in 1..Len(UpdateBodies) :
          UpdateProfile(auth, xid, UpdateBodies[k])
    \/ \E auth \in AuthHeaders, xid \in IdTokenHeaders : DeleteProfile(auth, xid)
    \/ ProfileFail
    \/ ProfileRefused
    \/ GetProfileOk
    \/ UpdateProfileOk
    \/ DeleteProfileOk
    \/ ProfileReturn

\* the profile handlers alone
ProfileSpec == Init /\ [][ProfileNext]_vars

----------------------------------------------------------------------------
(* Properties *)

\* the calls of a kind that have just returned
Returned(kind) == {i \in Requests : req[i].pc = "done" /\ req[i].kind = kind}

ActiveStatuses == {"pending", "authorizing"}

\* the page template was parsed and executes
TemplateUsable == env.template = "parsed"

\* no value of the two indexes is absent from the primary map
IndexesResolve(ds, si, ui) ==
    /\ \A k \in DOMAIN ui : ui[k] \in DOMAIN ds
    /\ \A k \in DOMAIN si : si[k] \in DOMAIN ds

\* m2 is m1 with some keys deleted
Restricts(m1, m2) == \A k \in DOMAIN m2 : k \in DOMAIN m1 /\ m2[k] = m1[k]

\* the provider a start call names is not one of google and github
Unsupported(slot) == ~slot.bad /\ ProviderName(ToLower(slot.text)) \notin Providers

\* the provider a start call names is supported and has no credentials
Unconfigured(slot) ==
    /\ ~slot.bad
    /\ ProviderName(ToLower(slot.text)) \in Providers \ configured

\* C1: the token bundle of a complete session is handed out exactly once: over
\* all polls for a device code, concurrent ones included, at most one answers
\* 200, and every poll begun after a 200 for its device code answers 404.
C1_BundleOnce ==
    /\ \A dc \in DOMAIN delivered : delivered[dc] <= 1
    /\ \A i \in Returned("poll") : req[i].late => req[i].resp.status = 404

\* C2: every session the state index maps to is pending or authorizing.
C2_StateIndexActive ==
    \A st \in DOMAIN stateIndex :
        stateIndex[st] \in DOMAIN deviceSessions
            => deviceSessions[stateIndex[st]].status \in ActiveStatuses

\* C3: after every step, each value of the user-code index and of the state
\* index is a key of the primary map, and a step that deletes a session from
\* the primary map deletes its user-code key and its state key in that step.
C3_IndexesAtomic ==
    [][/\ IndexesResolve(deviceSessions', stateIndex', userIndex')
       /\ \A dc \in DOMAIN deviceSessions \ DOMAIN deviceSessions' :
             /\ deviceSessions[dc].normalizedUserCode \notin DOMAIN userIndex'
             /\ deviceSessions[dc].state \notin DOMAIN stateIndex']_vars

\* C3 witness: one session was removed while another is live and is the value
\* of an entry in each index
C3_RemovedBesideLive ==
    /\ \E dc \in 1..issued : dc \notin DOMAIN deviceSessions
    /\ \E dc \in DOMAIN deviceSessions :
          /\ \E k \in DOMAIN userIndex : userIndex[k] = dc
          /\ \E k \in DOMAIN stateIndex : stateIndex[k] = dc

\* C4: no two live sessions share a deviceCode, a normalizedUserCode or a
\* state, and each live session is the one its own index keys resolve to (the
\* state key as long as the session is pending or authorizing, as it is after
\* start calls).
C4_UniqueKeys ==
    /\ \A a, b \in DOMAIN deviceSessions :
          a # b => /\ deviceSessions[a].deviceCode # deviceSessions[b].deviceCode
                   /\ deviceSessions[a].normalizedUserCode
                          # deviceSessions[b].normalizedUserCode
                   /\ deviceSessions[a].state # deviceSessions[b].state
    /\ \A dc \in DOMAIN deviceSessions :
          /\ deviceSessions[dc].deviceCode = dc
          /\ MapGet(userIndex, deviceSessions[dc].normalizedUserCode) = dc
          /\ deviceSessions[dc].status \in ActiveStatuses
                => MapGet(stateIndex, deviceSessions[dc].state) = dc

\* C5: a complete session has tokens and no error, an error session has an
\* error and no tokens, a pending or authorizing session has neither.
C5_TokensOrError ==
    \A dc \in DOMAIN deviceSessions :
        LET session == deviceSessions[dc]
        IN /\ session.status = "complete"
                => session.tokens # NoTokens /\ session.error = NoMsg
           /\ session.status = "error"
                => session.error # NoMsg /\ session.tokens = NoTokens
           /\ session.status \in ActiveStatuses
                => session.tokens = NoTokens /\ session.error = NoMsg

\* C6: after every step each session has expiresAt = createdAt + 600 (so a
\* session has it at creation), and no step changes the createdAt or the
\* expiresAt of a session it leaves in the map.
C6_ExpiryFixed ==
    [][\A dc \in DOMAIN deviceSessions' :
          /\ deviceSessions'[dc].expiresAt
                 = deviceSessions'[dc].createdAt + deviceSessionTTL
          /\ dc \in DOMAIN deviceSessions
                => /\ deviceSessions'[dc].createdAt = deviceSessions[dc].createdAt
                   /\ deviceSessions'[dc].expiresAt = deviceSessions[dc].expiresAt]_vars

\* C6 witness: a session submitted after the second of its creation and then
\* completed by a callback
C6_TouchedAndComplete ==
    \E dc \in DOMAIN deviceSessions :
        /\ deviceSessions[dc].status = "complete"
        /\ deviceSessions[dc].lastTouched > deviceSessions[dc].createdAt
        /\ deviceSessions[dc].completedAt > deviceSessions[dc].createdAt

\* C7: a poll that begins with its session pending and past expiresAt answers
\* 410 and leaves the session in none of the three maps.
C7_ExpiredPollGone ==
    \A i \in Returned("poll") :
        req[i].due
            => /\ req[i].resp.status = 410
               /\ req[i].num \notin DOMAIN deviceSessions
               /\ \A k \in DOMAIN userIndex : userIndex[k] # req[i].num
               /\ \A k \in DOMAIN stateIndex : stateIndex[k] # req[i].num

\* C8: no removeSession of a sessionCleanup removes a complete session before
\* 120 seconds have passed since it became complete.
C8_GraceBeforeSweep ==
    [][\A i \in Requests :
          req[i].pc = "cleanup_remove" /\ req'[i] # req[i]
              => \A dc \in DOMAIN deviceSessions \ DOMAIN deviceSessions' :
                    ~ /\ deviceSessions[dc].status = "complete"
                      /\ now - deviceSessions[dc].completedAt < cleanupGrace]_vars

\* C9: the calls start(google), poll, submit of the user code, callback/google
\* with the session's state and a successful exchange, poll, poll, made one
\* after the other within the session's lifetime and grace, yield in this
\* order: 200 and a pending session; 202 pending; the session authorizing and
\* a redirect to Google carrying its state; the session complete with the
\* bundle attached; 200 with that bundle and the session gone; 404.  The
\* session is looked at when a call has returned and the next has not begun.
C9_LoginScenario ==
    LET live == scene.code \in DOMAIN deviceSessions
        session == deviceSessions[scene.code]
        answers(resp) == \A i \in Requests : req[i].pc = "done" => req[i].resp = resp
        settled == \A i \in Requests : req[i].pc \in {"idle", "done"}
    IN settled =>
       /\ scene.step = 1
            => /\ live /\ session.status = "pending"
               /\ session.provider = "google"
               /\ answers(StartResponse(session))
       /\ scene.step = 2
            => /\ live /\ session.status = "pending"
               /\ answers(Json(202, NoMsg, [status |-> "pending"]))
       /\ scene.step = 3
            => /\ live /\ session.status = "authorizing"
               /\ answers(Redirect("google", session.state))
       /\ scene.step = 4
            => /\ live /\ session.status = "complete"
               /\ session.tokens # NoTokens
               /\ session.tokens = scene.bundle
               /\ session.tokens["provider"] = "google"
               /\ \A i \in Requests :
                     req[i].pc = "done" /\ TemplateUsable
                         => /\ req[i].resp.type = "html"
                            /\ ~req[i].resp.data.error
       /\ scene.step = 5
            => /\ ~live
               /\ scene.bundle # NoTokens
               /\ answers(Json(200, NoMsg, scene.bundle))
       /\ scene.step = 6
            => /\ ~live
               /\ answers(Json(404, Msg("Unknown device code"), NoData))

\* C9 witness: the six calls of the scenario have returned
C9_ScenarioDone == scene.step = 6 /\ Returned("poll") # {}

\* the three maps are left as they were
StoreSame ==
    /\ deviceSessions' = deviceSessions
    /\ userIndex' = userIndex
    /\ stateIndex' = stateIndex

\* C10 as the claim states it: a start naming an unsupported provider answers
\* 400, one naming a supported provider without credentials answers 500, and
\* in both cases the call creates no session and removes none.
C10_RejectedStartStoreSame ==
    \A i \in Returned("start") :
        /\ Unsupported(req[i])
              => req[i].resp.status = 400 /\ req[i].deviceCode = 0 /\ ~req[i].swept
        /\ Unconfigured(req[i])
              => req[i].resp.status = 500 /\ req[i].deviceCode = 0 /\ ~req[i].swept

\* C10 amended: a start naming an unsupported provider answers 400 and one
\* naming a supported provider without credentials answers 500, the step that
\* rejects it changes nothing in the store, and before it the call changes
\* the store only by removing sessions its sessionCleanup collected: its
\* arrival and its scan change nothing, no session is created or modified,
\* and no index entry is added or changed.
C10_RejectedStartOnlySweeps ==
    [][\A i \in Requests :
          /\ req'[i] # req[i] /\ req'[i].kind = "start"
                /\ req[i].pc \in {"idle", "cleanup_lock"}
                => issued' = issued /\ StoreSame
          /\ req[i].pc = "cleanup_remove" /\ req[i].kind = "start" /\ req'[i] # req[i]
                => /\ issued' = issued
                   /\ Restricts(deviceSessions, deviceSessions')
                   /\ Restricts(userIndex, userIndex')
                   /\ Restricts(stateIndex, stateIndex')
                   /\ DOMAIN deviceSessions \ DOMAIN deviceSessions'
                          \subseteq req[i].expiredCodes
          /\ req[i].pc = "start_body" /\ req'[i] # req[i]
                /\ (Unsupported(req'[i]) \/ Unconfigured(req'[i]))
                => /\ req'[i].pc = "done"
                   /\ req'[i].resp.status = IF Unsupported(req'[i]) THEN 400 ELSE 500
                   /\ req'[i].deviceCode = 0
                   /\ issued' = issued
                   /\ deviceSessions' = deviceSessions
                   /\ userIndex' = userIndex
                   /\ stateIndex' = stateIndex]_vars

\* C10 witness: a start rejected with 500 has returned after its
\* sessionCleanup removed a session
C10_RejectedAfterSweep ==
    \E i \in Returned("start") :
        Unconfigured(req[i]) /\ req[i].resp.status = 500 /\ req[i].swept

\* the 'session not found or expired' page
NotFoundPage ==
    DevicePage(Msg("Session not found or expired. Return to the CLI and try again."),
               <<>>, TRUE, FALSE)

\* a callback's step in which findState looks its state up
FindsState(i) == req[i].pc = "cb_find" /\ req'[i] # req[i]

\* a callback's step after a lookup that resolved to no live session
ResolvedNone(i) ==
    /\ req[i].pc = "cb_get" /\ req'[i] # req[i]
    /\ req[i].deviceCode = 0 \/ req[i].deviceCode \notin DOMAIN deviceSessions

\* C11: a callback (of either provider) that arrives with a state that is a
\* key of no state-index entry resolves to no session and is answered with
\* the 'session not found or expired' page, and its steps leave the primary
\* map and both indexes as they were.
C11_UnknownStatePageSent ==
    [][\A i \in Requests :
          /\ FindsState(i) /\ req'[i].num \notin DOMAIN stateIndex
                => req'[i].pc = "cb_get" /\ req'[i].deviceCode = 0 /\ StoreSame
          /\ ResolvedNone(i)
                => req'[i].pc = "done" /\ req'[i].resp = NotFoundPage /\ StoreSame]_vars

\* white space characters of the inputs
Whitespace == {" ", "\t"}

\* a spelling with its hyphens and white space taken out and its letters in
\* upper case: two texts are spellings of one code when these are equal
Canonical(text) ==
    LET kept(c) == c # "-" /\ c \notin Whitespace
    IN ToUpper(SelectSeq(text, kept))

\* C12: a submit whose text is a spelling of a live session's user code
\* (differing in letter case, hyphens and white space only) resolves to that
\* session; normalizeCode is idempotent on the submitted text; and the key
\* stored at creation is normalizeCode of the user code.
C12_SpellingsResolve ==
    [][\A i \in Requests :
          req[i].pc = "submit_lock" /\ req'[i] # req[i]
          => /\ normalizeCode(normalizeCode(req[i].text)) = normalizeCode(req[i].text)
             /\ req[i].normalized = normalizeCode(req[i].text)
             /\ \A dc \in DOMAIN deviceSessions :
                   /\ deviceSessions[dc].normalizedUserCode
                          = normalizeCode(deviceSessions[dc].userCode)
                   /\ Canonical(req[i].text) = Canonical(deviceSessions[dc].userCode)
                          => req'[i].ptr = dc]_vars

\* handler i's step is the one in which its callback's exchange with the
\* provider or with the identity provider fails, its session still in the map
UpstreamFails(i) ==
    /\ req[i].pc \in {"cb_provider", "cb_firebase"}
    /\ req'[i].pc = "done"
    /\ req'[i].upstream = "failed"
    /\ req[i].deviceCode \in DOMAIN deviceSessions

\* a poll has returned that began with its session in status error and not
\* due for sessionCleanup, in a run that serves one request at a time
ErrorPolls ==
    {i \in Requests : /\ req'[i].pc = "done"
                      /\ req'[i].kind = "poll"
                      /\ env.goroutines = 1
                      /\ req'[i].seen.status = "error"
                      /\ req'[i].spared}

\* C13: when a callback's exchange fails the session becomes error with the
\* failure message stored (a populated error), the callback answers with a
\* page and not with a 500, and the next poll answers 400 with the stored
\* message as its detail.
C13_FailureMessageSurfaced ==
    [][/\ \A i \in Requests :
             UpstreamFails(i)
             => /\ deviceSessions'[req[i].deviceCode].status = "error"
                /\ deviceSessions'[req[i].deviceCode].error # NoMsg
                /\ deviceSessions'[req[i].deviceCode].error = req'[i].message
                /\ req'[i].resp.type = "html" /\ req'[i].resp.status = 200
       /\ \A i \in ErrorPolls :
             req'[i].resp = Json(400, req'[i].seen.error, NoData)]_vars

\* a session with its state blanked
WithoutState(session) == [session EXCEPT !.state = 0]

\* the poll responses that are computed from no session
SessionlessPollResponses ==
    { Json(400, Msg("Invalid request"), NoData),
      Json(404, Msg("Unknown device code"), NoData),
      Json(202, NoMsg, [status |-> "pending"]) }

\* C14: the responses sent to the CLI do not depend on a session's state: a
\* start response and a poll response computed from a session are the same
\* when computed from that session with its state blanked, every other start
\* or poll response is computed from no session, and none has a state field.
\* A response that has a state field is the redirect of a submit, and the
\* field is the state of the session the submit resolved.
C14_StateConfined ==
    [][\A i \in Requests :
          req'[i].pc = "done" /\ req[i].pc # "done"
          => /\ req'[i].kind = "start"
                  => /\ "state" \notin DOMAIN req'[i].resp.data
                     /\ IF req'[i].resp.status = 200
                        THEN /\ req'[i].deviceCode \in DOMAIN deviceSessions'
                             /\ req'[i].resp
                                    = StartResponse(WithoutState(
                                          deviceSessions'[req'[i].deviceCode]))
                        ELSE req'[i].resp.data = NoData
             /\ req'[i].kind = "poll"
                  => /\ "state" \notin DOMAIN req'[i].resp.data
                     /\ IF req[i].pc = "poll_remove"
                        THEN req'[i].resp = PollResponse(WithoutState(req[i].session))
                        ELSE req'[i].resp \in SessionlessPollResponses
             /\ "state" \in DOMAIN req'[i].resp.data
                  => /\ req'[i].kind = "submit"
                     /\ req'[i].resp.type = "redirect"
                     /\ req'[i].resp.data.state = Deref(Store, req[i].ptr).state
                     /\ req'[i].resp.data.state # 0]_vars

\* C14 witness: a poll has handed out the bundle of a session that has a state
C14_BundlePolled ==
    \E i \in Returned("poll") :
        /\ req[i].resp.status = 200
        /\ req[i].seen.state # 0
        /\ req[i].resp.data = req[i].seen.tokens

\* the device codes issued so far
DeviceCodes == {generateDeviceCode(k) : k \in 1..issued}

\* C15: the device code is in the start response only.  A poll response has
\* no device_code field; a page of the form, submit or callback handlers has
\* the fields code, error and show_form, its code being the text the request
\* carried (none for a callback); a redirect has the fields provider, state
\* and scope, and its state is no device code; the 500 sent when the page
\* cannot be rendered has no field; a request sent upstream has no
\* device_code field, and the state a token request carries is the one the
\* callback received and no device code.
C15_DeviceCodeConfined ==
    \A i \in Requests :
        /\ req[i].sent # NoRequest
              => /\ "device_code" \notin DOMAIN req[i].sent
                 /\ "state" \in DOMAIN req[i].sent
                       => /\ req[i].sent.state = req[i].num
                          /\ req[i].sent.state \notin DeviceCodes
        /\ req[i].pc = "done" /\ req[i].kind = "start" /\ req[i].resp.status = 200
              => req[i].resp.data.device_code = req[i].deviceCode
        /\ req[i].pc = "done" /\ req[i].kind = "poll"
              => "device_code" \notin DOMAIN req[i].resp.data
        /\ req[i].pc = "done" /\ req[i].kind \in {"form", "submit"} \cup Providers
              => IF req[i].resp.type = "html"
                 THEN /\ DOMAIN req[i].resp.data = {"code", "error", "show_form"}
                      /\ req[i].resp.data.code
                             = IF req[i].kind \in Providers THEN <<>> ELSE req[i].text
                 ELSE IF req[i].resp.type = "redirect"
                 THEN /\ DOMAIN req[i].resp.data = {"provider", "state", "scope"}
                      /\ req[i].resp.data.state \notin DeviceCodes
                 ELSE /\ ~TemplateUsable
                      /\ req[i].resp.status = 500
                      /\ req[i].resp.data = NoData

\* C15 witness: a GitHub callback has its token request in flight, which
\* carries the state of a live session
C15_TokenRequestInFlight ==
    \E i \in Requests :
        /\ req[i].kind = "github"
        /\ req[i].pc = "cb_provider" /\ req[i].since # 0
        /\ "state" \in DOMAIN req[i].sent
        /\ req[i].deviceCode \in DOMAIN deviceSessions
        /\ req[i].sent.state = deviceSessions[req[i].deviceCode].state

\* C16: terminal statuses are absorbing: no step changes the status of a
\* session that is complete, error or expired and that it leaves in the map.
C16_TerminalAbsorbing ==
    [][\A dc \in DOMAIN deviceSessions \cap DOMAIN deviceSessions' :
          deviceSessions[dc].status \in TerminalStatuses
              => deviceSessions'[dc].status = deviceSessions[dc].status]_vars

\* C17: no step takes a session from pending to complete or to error.
C17_OnlyFromAuthorizing ==
    [][\A dc \in DOMAIN deviceSessions \cap DOMAIN deviceSessions' :
          deviceSessions[dc].status = "pending"
              => deviceSessions'[dc].status \notin {"complete", "error"}]_vars

\* C18: when a callback that resolved a live, unexpired session has both
\* exchanges succeed and renders 'Authentication complete', the session is in
\* the map with status complete and the bundle attached.
C18_CompleteWhenRendered ==
    [][\A i \in Requests :
          req[i].pc = "cb_firebase" /\ req'[i].pc = "done" /\ req'[i].upstream = "ok"
          => /\ req[i].deviceCode \in DOMAIN deviceSessions'
             /\ deviceSessions'[req[i].deviceCode].status = "complete"
             /\ deviceSessions'[req[i].deviceCode].tokens # NoTokens]_vars

\* a session that is pending or authorizing and not expired at time t
ActiveAt(session, t) == session.status \in ActiveStatuses /\ session.expiresAt > t

\* C19: a poll for a session that is pending or authorizing and not expired
\* answers 202 'pending' and consumes nothing: the step in which it arrives,
\* the scan of its sessionCleanup, the step in which it copies the session and
\* the step in which it reads the clock and decides leave the three maps as
\* they were, and the removals of its sessionCleanup leave every such session,
\* its fields and its two index entries as they were.
C19_PendingPollKeeps ==
    [][\A i \in Requests :
          /\ req'[i] # req[i] /\ req'[i].kind = "poll"
                /\ req[i].pc \in {"idle", "cleanup_lock"}
                => /\ deviceSessions' = deviceSessions
                   /\ userIndex' = userIndex
                   /\ stateIndex' = stateIndex
          /\ req[i].kind = "poll" /\ req[i].pc = "cleanup_remove" /\ req'[i] # req[i]
                => \A dc \in DOMAIN deviceSessions :
                      ActiveAt(deviceSessions[dc], now)
                      => /\ dc \in DOMAIN deviceSessions'
                         /\ deviceSessions'[dc] = deviceSessions[dc]
                         /\ MapGet(userIndex, deviceSessions[dc].normalizedUserCode) = dc
                                => MapGet(userIndex', deviceSessions[dc].normalizedUserCode) = dc
                         /\ MapGet(stateIndex, deviceSessions[dc].state) = dc
                                => MapGet(stateIndex', deviceSessions[dc].state) = dc
          /\ req[i].pc = "poll_get" /\ req'[i] # req[i]
                => /\ deviceSessions' = deviceSessions
                   /\ userIndex' = userIndex
                   /\ stateIndex' = stateIndex
          /\ req[i].pc = "poll_clock" /\ req'[i] # req[i]
                /\ req[i].num \in DOMAIN deviceSessions
                /\ ActiveAt(deviceSessions[req[i].num], now)
                => /\ req'[i].pc = "done"
                   /\ req'[i].resp = Json(202, NoMsg, [status |-> "pending"])
                   /\ deviceSessions' = deviceSessions
                   /\ userIndex' = userIndex
                   /\ stateIndex' = stateIndex]_vars

\* C19 witness: a poll has answered 202 for an authorizing session, which is
\* in the map as it was when the poll began
C19_AuthorizingPolled ==
    \E i \in Returned("poll") :
        /\ req[i].resp.status = 202
        /\ req[i].seen.status = "authorizing"
        /\ req[i].spared
        /\ req[i].num \in DOMAIN deviceSessions
        /\ deviceSessions[req[i].num] = req[i].seen
        /\ userIndex[req[i].seen.normalizedUserCode] = req[i].num
        /\ stateIndex[req[i].seen.state] = req[i].num

\* C20: a poll that answers for a session in status error answers 400 with
\* the stored error as its detail ('Authorization failed' standing for an
\* empty one, as under C13) and leaves the session in none of the three maps,
\* and at most one poll observes the error of a session.
C20_ErrorPolledOnce ==
    [][/\ \A i \in Requests :
             req[i].pc = "poll_remove" /\ req'[i].pc = "done"
                 /\ req[i].session.status = "error"
             => /\ req'[i].resp
                       = Json(400, IF req[i].session.error = NoMsg
                                   THEN Msg("Authorization failed")
                                   ELSE req[i].session.error, NoData)
                /\ req[i].num \notin DOMAIN deviceSessions'
                /\ \A k \in DOMAIN userIndex' : userIndex'[k] # req[i].num
                /\ \A k \in DOMAIN stateIndex' : stateIndex'[k] # req[i].num
       /\ \A dc \in DOMAIN refused' : refused'[dc] <= 1]_vars

\* the steps handler i takes for a submit
SubmitSteps(i) == req'[i] # req[i] /\ req'[i].kind = "submit"

\* C21: a submit reads now when it arrives (line 489).  Every session whose
\* user code it carries and that is then pending or authorizing and has not
\* reached its expiresAt is the session its critical section resolves, and
\* the critical section writes status authorizing and lastTouched = now to it
\* and no other field (deviceCode, userCode, state, provider, createdAt and
\* expiresAt are as they were); the submit then writes nothing more and
\* answers with the redirect to that session's provider that carries that
\* session's state.
C21_SubmitAuthorizes ==
    [][\A i \in Requests :
          /\ req[i].pc = "idle" /\ SubmitSteps(i) /\ req'[i].pc # "done"
                => req'[i].clock = now /\ StoreSame
          /\ req[i].pc = "submit_lock" /\ SubmitSteps(i)
                => \A dc \in DOMAIN deviceSessions :
                      /\ deviceSessions[dc].normalizedUserCode = req[i].normalized
                      /\ ActiveAt(deviceSessions[dc], req[i].clock)
                      => /\ req'[i].deviceCode = dc
                         /\ req'[i].saw = "authorizing"
                         /\ deviceSessions'
                                = [deviceSessions EXCEPT
                                      ![dc] = [@ EXCEPT !.status = "authorizing",
                                                        !.lastTouched = req[i].clock]]
                         /\ userIndex' = userIndex /\ stateIndex' = stateIndex
          /\ req[i].pc = "submit_expired" /\ SubmitSteps(i) /\ req[i].saw = "authorizing"
                => req'[i].pc = "submit_route" /\ StoreSame
          /\ req[i].pc = "submit_route" /\ SubmitSteps(i) /\ req[i].saw = "authorizing"
                => /\ StoreSame
                   /\ req'[i].resp = Redirect(Deref(Store, req[i].ptr).provider,
                                              Deref(Store, req[i].ptr).state)]_vars

\* C22: in a run that serves one request at a time, a submit whose code
\* resolves to no session, or to a session whose expiresAt has passed,
\* re-renders the entry form with an error message, and no step it takes
\* changes the primary map or either index.
C22_RejectedSubmitStoreSame ==
    [][\A i \in Requests :
          SubmitSteps(i) /\ req'[i].text # <<>> /\ env.goroutines = 1
              /\ (req'[i].deviceCode = 0 \/ ~req'[i].spared)
          => /\ StoreSame
             /\ req'[i].pc = "done"
                => /\ req'[i].resp.type = "html"
                   /\ req'[i].resp.data.error
                   /\ req'[i].resp.data.show_form]_vars

\* C23: in a run that serves one request at a time, a submit with the user
\* code of a session in status complete
\* re-renders the form with the 'already used' message, and no step it takes
\* changes a field of the session or an index entry.
C23_UsedSubmitStoreSame ==
    [][\A i \in Requests :
          SubmitSteps(i) /\ req'[i].seen # NilSession
              /\ req'[i].seen.status = "complete"
          => /\ StoreSame
             /\ req'[i].pc = "done"
                => req'[i].resp
                       = renderDevicePage(
                             Msg("This code has already been used. Return to the CLI."),
                             req'[i].text, TRUE, TRUE)]_vars

\* the sessions a sweep at time t is to remove: pending with expiresAt <= t,
\* or terminal with completedAt more than 120 seconds before t (a completedAt
\* that was written: deviceSubmit marks a session expired without one, line
\* 498, and the scan then takes its expiresAt, lines 110-112)
SweepDue(session, t) ==
    \/ session.status = "pending" /\ session.expiresAt <= t
    \/ /\ session.status \in TerminalStatuses
       /\ session.completedAt # 0
       /\ t - session.completedAt > cleanupGrace

\* a sweep of handler i begins: the request arrives and sessionCleanup reads
\* the clock
SweepBegins(i) == req[i].pc = "idle" /\ req'[i].kind \in {"start", "poll"}

\* the sweep of handler i takes the lock and scans
SweepScans(i) == req[i].pc = "cleanup_lock" /\ req'[i] # req[i]

\* the sweep of handler i returns: its scan collected nothing, or its loop
\* made its last removal
SweepReturns(i) ==
    /\ req[i].pc \in {"cleanup_lock", "cleanup_remove"}
    /\ req'[i].pc = AfterCleanup(req[i])

Evicted(dc) ==
    /\ dc \notin DOMAIN deviceSessions
    /\ \A k \in DOMAIN userIndex : userIndex[k] # dc
    /\ \A k \in DOMAIN stateIndex : stateIndex[k] # dc

\* C25: when time keeps advancing and start or poll requests keep arriving,
\* every session the clock can outlive (its expiresAt is not after Horizon) is
\* eventually in none of the three maps, whatever its status and whether or
\* not it is polled.
C25_EventuallyEvicted ==
    \A dc \in 1..MaxSessions :
        (dc \in DOMAIN deviceSessions /\ deviceSessions[dc].expiresAt <= Horizon)
            ~> Evicted(dc)

\* C25 witness: a session that no poll asked for has been created and swept
C25_AbandonedSwept ==
    /\ issued > 0
    /\ now = Horizon
    /\ \A dc \in 1..MaxSessions : Evicted(dc) /\ delivered[dc] = 0 /\ refused[dc] = 0
    /\ \E i \in Requests : req[i].kind = "start" /\ req[i].swept

\* the positions at which a callback waits for the provider's token endpoint
\* or for the identity exchange
ExchangePositions == {"cb_provider", "cb_firebase"}

\* callback i waits for the answer of an upstream call
Waits(i) == req[i].pc \in ExchangePositions /\ req[i].since # 0

\* the next step of a start, poll or submit that handler j serves, the return
\* of Lock or RLock included
Proceeds(j) ==
    \/ CleanupLock(j) \/ CleanupRemove(j) \/ DeviceStart(j) \/ DeviceStartStore(j)
    \/ DevicePoll(j) \/ DevicePollDecide(j) \/ DevicePollMark(j) \/ DevicePollRemove(j)
    \/ DeviceSubmitLock(j) \/ DeviceSubmitExpired(j) \/ DeviceSubmitRemove(j)
    \/ DeviceSubmitRoute(j) \/ Lock(j) \/ RLock(j)

\* C26: a callback that waits for an upstream call does not hold
\* sessionMutex, for writing or for reading: when a goroutine is free a
\* start, a poll and a submit can each arrive, and a start, poll or submit
\* under way can take its next step, Lock and RLock returning to it when that
\* step is one, unless a handler that is in a critical section, and can end
\* it, has the lock.  (Of the handlers that have sent their response, the
\* model lets the return come first.)
C26_ExchangeUnlocked ==
    \A i \in Requests :
        Waits(i)
        => /\ ~Holds(i)
           /\ ~Returning
                 => /\ (\E j \in 1..env.goroutines : req[j].pc = "idle")
                          => /\ "start" \in env.routes
                                   => \E j \in Requests : ENABLED DeviceStartCleanup(j)
                             /\ "poll" \in env.routes
                                   => \E j \in Requests : ENABLED DevicePollCleanup(j)
                             /\ "submit" \in env.routes
                                   => \E j \in Requests : ENABLED DeviceSubmit(j)
                    /\ \A j \in Requests \ {i} :
                          req[j].kind \in {"start", "poll", "submit"}
                          => \/ ENABLED Proceeds(j)
                             \/ \E k \in Requests \ {i, j} :
                                   Holds(k) /\ k \in critical /\ ENABLED Serves(k)

\* C26 witness: a poll that arrived while a callback waited for the identity
\* exchange has taken and released the lock and has been answered, and the
\* callback still waits
C26_PolledDuringExchange ==
    /\ req[1].pc = "cb_firebase" /\ req[1].since # 0
    /\ req[2].pc = "done" /\ req[2].kind = "poll"
    /\ req[2].resp.status = 202
    /\ req[2].clock >= req[1].clock

\* C27: what deviceSubmit does after its critical section follows the status
\* the session had when the lock was released: it removes the session exactly
\* when that status was expired, and otherwise renders 'already used' exactly
\* when that status was complete.
C27_SubmitActsOnCopy ==
    [][\A i \in Requests :
          /\ req[i].pc = "submit_expired" /\ req'[i] # req[i]
                => (req'[i].pc = "submit_remove" <=> req[i].saw = "expired")
          /\ req[i].pc = "submit_route" /\ req'[i] # req[i]
                => (req'[i].resp
                        = renderDevicePage(
                              Msg("This code has already been used. Return to the CLI."),
                              req[i].text, TRUE, TRUE)
                    <=> req[i].saw = "complete")]_vars

\* C28: the status a handler read is the status it writes over: devicePoll's
\* markSession writes expired over a session that is pending, and a callback's
\* markSession or setSessionTokens writes error or complete over a session
\* that is not terminal.
C28_WriteMatchesRead ==
    [][\A i \in Requests :
          /\ req[i].pc = "poll_mark" /\ req'[i] # req[i]
                /\ req[i].deviceCode \in DOMAIN deviceSessions
                => deviceSessions[req[i].deviceCode].status = "pending"
          /\ req[i].pc \in {"cb_mark_error", "cb_provider", "cb_firebase"}
                /\ req'[i].pc = "done"
                /\ req[i].deviceCode \in DOMAIN deviceSessions
                => deviceSessions[req[i].deviceCode].status \notin TerminalStatuses]_vars

\* C29: a start or a poll whose body does not bind, or lacks its provider or
\* device_code, answers 400, creates no session and removes none.
C29_InvalidBodyStoreSame ==
    /\ \A i \in Returned("start") :
          req[i].bad \/ req[i].text = <<>>
              => req[i].resp.status = 400 /\ req[i].deviceCode = 0 /\ ~req[i].swept
    /\ \A i \in Returned("poll") :
          req[i].bad \/ req[i].num = 0
              => req[i].resp.status = 400 /\ ~req[i].swept

\* the request carries a well-formed Authorization header or an X-ID-Token
CarriesToken(slot) == extractToken(slot.auth).err = NoMsg \/ slot.xid # <<>>

\* C30: a profile request (get, update or delete) that carries its identity
\* token in a well-formed Authorization header or in X-ID-Token is not
\* answered 401; a request that carries neither is answered 401 and no
\* request was sent upstream for it.
C30_TokenFromEitherHeader ==
    profile.kind # "none" =>
        /\ CarriesToken(profile) => profile.resp.status # 401
        /\ ~CarriesToken(profile) =>
              /\ profile.pc = "done"
              /\ profile.resp.status = 401
              /\ ~profile.called

\* C31: the bundle of a complete session names the session's own provider.
C31_BundleOfOwnProvider ==
    \A dc \in DOMAIN deviceSessions :
        deviceSessions[dc].status = "complete"
            => /\ "provider" \in DOMAIN deviceSessions[dc].tokens
               /\ deviceSessions[dc].tokens["provider"] = deviceSessions[dc].provider

\* C32: a step that makes a session complete is taken before the session's
\* expiresAt.
C32_CompleteBeforeExpiry ==
    [][\A dc \in DOMAIN deviceSessions :
          /\ dc \in DOMAIN deviceSessions'
          /\ deviceSessions[dc].status # "complete"
          /\ deviceSessions'[dc].status = "complete"
          => now < deviceSessions[dc].expiresAt]_vars

\* C33: the bundle and completedAt of a complete session stay as they are
\* for as long as the session is in the store.
C33_BundleWrittenOnce ==
    [][\A dc \in DOMAIN deviceSessions :
          /\ dc \in DOMAIN deviceSessions'
          /\ deviceSessions[dc].status = "complete"
          => /\ deviceSessions'[dc].tokens = deviceSessions[dc].tokens
             /\ deviceSessions'[dc].completedAt = deviceSessions[dc].completedAt]_vars

\* C34: when deviceSubmit answers with a redirect to the provider, the
\* session it redirects for is pending or authorizing.
C34_RedirectsActiveOnly ==
    [][\A i \in Requests :
          /\ req[i].pc = "submit_route"
          /\ req'[i].pc = "done"
          /\ req'[i].resp.type = "redirect"
          => Deref(Store, req[i].ptr).status \in ActiveStatuses]_vars

\* a session a sweep at time t is to leave alone: its expiresAt is after t,
\* and it is not terminal or became terminal at most 120 seconds before t
SweepSpares(session, t) ==
    /\ session.expiresAt > t
    /\ \/ session.status \notin TerminalStatuses
       \/ t - session.completedAt <= cleanupGrace

ResolvingKinds == {"poll", "submit"} \cup Providers

\* C36: a step of a poll, submit or callback that resolved session A, other
\* than a removal of the sweep at the top of poll, leaves every other session
\* B in the store with its fields, and leaves B's entries in the two indexes.
C36_OtherSessionsUntouched ==
    [][\A i \in Requests :
          /\ req'[i] # req[i]
          /\ req'[i].kind \in ResolvingKinds
          /\ req[i].pc # "cleanup_remove"
          => \A dc \in DOMAIN deviceSessions \ {req'[i].deviceCode} :
                /\ dc \in DOMAIN deviceSessions'
                /\ deviceSessions'[dc] = deviceSessions[dc]
                /\ \A k \in DOMAIN userIndex :
                      userIndex[k] = dc => MapGet(userIndex', k) = dc
                /\ \A k \in DOMAIN stateIndex :
                      stateIndex[k] = dc => MapGet(stateIndex', k) = dc]_vars

\* a request is being served and no response waits for its return
Serving == (\E i \in Requests : req[i].pc # "idle") /\ ~Returning

\* C37: every handler releases sessionMutex before it goes on: a handler
\* holds the lock only in a critical section (not in an upstream call, not
\* between two removals of sessionCleanup's loop, not once it has responded),
\* a writer holds it alone, in no reachable state are all the handlers
\* blocked, and when the goroutines keep running every request that arrived
\* is answered and its handler returns.
C37_LockReleased ==
    /\ [](\A i \in Requests : Holds(i) <=> i \in critical)
    /\ [](sessionMutex.writer # 0 => sessionMutex.readers = {})
    /\ [](Serving => ENABLED Handles)
    /\ \A i \in Requests : (req[i].pc # "idle") ~> (req[i].pc = "idle")

\* C37 witness: two handlers are in sessionCleanup's loop together; one holds
\* the lock in removeSession and the other waits for it
C37_TwoSweepsRemoving ==
    /\ \A i \in Requests : req[i].pc = "cleanup_remove"
    /\ \E i \in Requests : sessionMutex.writer = i
    /\ \E i \in Requests : i \notin critical

\* the five statuses of a session
SessionStatuses == {"pending", "authorizing", "complete", "error", "expired"}

\* C38: every session in the store, and every session a handler still points
\* to, has one of the five statuses, and no poll is answered 'Invalid device
\* session state'.
C38_StatusOneOfFive ==
    /\ \A dc \in DOMAIN deviceSessions : deviceSessions[dc].status \in SessionStatuses
    /\ \A p \in DOMAIN detached : detached[p].status \in SessionStatuses
    /\ \A i \in Requests :
          req[i].kind = "poll" => req[i].resp.detail # Msg("Invalid device session state")

\* C38 witness: a poll has been answered 400 for a session in status error,
\* the branch before the last of devicePoll
C38_ErrorBranchTaken ==
    \E i \in Returned("poll") :
        /\ req[i].resp.status = 400
        /\ req[i].deviceCode # 0
        /\ refused[req[i].deviceCode] = 1

\* C39: getProfile and updateProfile answer every reply of the identity
\* provider with a response of their own (a profile or an error): neither
\* handler panics.
C39_ProfileNeverPanics ==
    profile.kind \in {"get", "update"} => profile.resp.type # "panic"


====
